---- MODULE Spec2Model ----
(***************************************************************************)
(* Verification model of the proxy-node scanner (reza-python-vip/go).      *)
(*                                                                         *)
(* Spec         the node evaluation pipeline: the port pool, the           *)
(*              per-node test coroutines of XrayTester and HiddifyTester   *)
(*              and the two orchestrators (run_once of main.py and         *)
(*              test_all_nodes of src/main.py).  A coroutine's position    *)
(*              is the await it stands at; every await is a point where    *)
(*              the event loop may run another task.                       *)
(* SpecHistory  NodeHistory / HistoryManager of src/history.py.            *)
(***************************************************************************)
EXTENDS Integers, Sequences, FiniteSets, TLC

\* ------------------------------------------------------------------ bounds
\* Number of nodes handed to the orchestrator.
NumNodes == 3
\* Number of ports of the pool: [XRAY_SOCKS_PORT_START, XRAY_SOCKS_PORT_END].
NumPorts == 2
\* config.MAX_CONCURRENT_TESTS as configured in the model.
MAX_CONCURRENT_TESTS == 1
\* Largest window capacity a stand-alone NodeHistory is created with.
MaxWindow == 3
\* Number of add_test_result calls explored on the stand-alone NodeHistory.
MaxAdds == 5
\* Number of update_node_history calls explored on the HistoryManager.
MaxUpdates == 4
\* Longest list of config lines handed to filter_and_rank.
MaxConfigs == 3
\* subscription sources handed to SubscriptionFetcher
NumSources == 2

\* --------------------------------------------------------- program constants
XRAY_SOCKS_PORT_START == 20000
DEFAULT_MAX_SIZE == 50

XRAY_SOCKS_PORT_END == XRAY_SOCKS_PORT_START + NumPorts - 1
PortRange == XRAY_SOCKS_PORT_START .. XRAY_SOCKS_PORT_END
Nodes == 1 .. NumNodes
NodeIds == {"n1", "n2"}
\* The value of port[t] while task t holds no lease.
NoPort == 0

VARIABLES
    orch,          \* which orchestrator runs the cycle: "run_once" | "test_all_nodes"
    tester,        \* tester class in use: "xray" | "hiddify"
    ports,         \* PortManager._ports: the asyncio.Queue, head first
    pc,            \* pc[t]: the await the task of node t stands at
    port,          \* port[t]: the local variable port / socks_port of test_node
    metrics,       \* metrics[t]: the NodeMetrics test_node returns
    released,      \* released[t]: number of release_port calls made by task t
    tmpfile,       \* tmpfile[t]: a temp config file of task t exists on disk
    proc,          \* proc[t]: engine subprocess of task t: "none"|"running"|"exited"
    sem,           \* asyncio.Semaphore value of test_all_nodes
    collected,     \* tasks whose outcome the orchestrator has consumed
    metrics_list,  \* the list the orchestrator returns / gathers
    opc,           \* orchestrator position: "testing" | "done"
    caught,        \* caught[t]: class of the exception test_node of task t caught
    h,             \* a stand-alone NodeHistory
    node_history,  \* HistoryManager.node_history: node_id -> NodeHistory
    log,           \* the outcomes h.add_test_result has recorded, in call order
    updates,       \* number of update_node_history calls made so far
    raised,        \* the last add_test_result call raised IndexError
    restored,      \* NodeHistory.from_dict(h.to_dict()), and the calls made on
                   \* it since; None before it is made
    history_file,  \* what HistoryManager.history_file holds on disk
    saved,         \* node_history as it was at the last save_history that succeeded
    fresh,         \* node_history of a second, fresh HistoryManager
    load_outcome,  \* load_history of the fresh manager: "none" (not called) |
                   \* "not_found" | "loaded" | "starting_fresh" | "raised"
    raw_configs,   \* filter_and_rank: the list of config lines it is given
    metrics_map,   \* filter_and_rank: config line -> Optional[Metrics]
    scored_nodes,  \* filter_and_rank: the (score, final_config) tuples, sorted
    ranked,        \* filter_and_rank: the list it returns
    rank_pc,       \* "ready" | "returned"
    score_args,    \* two Metrics objects handed to MetricsAnalyzer.score
    score_results, \* the two scores returned; <<>> before the calls
    descriptors,   \* the config strings of two Node objects
    node_ids,      \* their node_id fields; <<>> before __post_init__ has run
    fetch_task,    \* fetch_task[i]: the _fetch_one_with_retry task of source i
    fetch_pc,      \* fetch_all: "idle" (not called) | "gathering" | "returned"
    fetched,       \* the list fetch_all returned
    cycle_fn,      \* the function that is called: "run_once" | "run_scanner" | "main"
    cyc_pc,        \* its position: "start" | "fetching" | "testing" | "tested" |
                   \* "updated" | "returned" | "raised" | "killed"
    cycle_exc,     \* the exception that left the cycle function; "none"
    main_loop_active, \* health_app.main_loop_active
    cycle_nodes,   \* the local list nodes of the cycle function
    all_metrics,   \* the local list all_metrics of the cycle function
    signal_received, \* the process of main() was sent SIGINT or SIGTERM
    probe_node,    \* XrayTester probes: the node test_node is called on
    latency_url,   \* config.LATENCY_TEST_URL; "" when not configured
    probe_pc,      \* _perform_tests: "latency" | "throughput" | "ended"
    probe_latency, \* the local latency of _perform_tests; None before it is set
    probe_started, \* the probes that were started
    probe_error,   \* <<probe, exception class>> of the probe that failed; <<>>
    probe_result,  \* the NodeMetrics test_node returns; None before
    xray_binary_is_file, \* Path(config.XRAY_BINARY).is_file()
    report_file,   \* config.OUTPUT_REPORT_PATH: "missing" | "recent" | "old" |
                   \* "stat_error"
    readyz         \* the last reply of /readyz and whether a cycle was running
                   \* when it was given; <<>> before the first request

evalVars == <<orch, tester, ports, pc, port, metrics, released, tmpfile, proc,
              sem, collected, metrics_list, opc, caught>>
histVars == <<h, node_history, log, updates, raised, restored>>
storeVars == <<history_file, saved, fresh, load_outcome>>
rankVars == <<raw_configs, metrics_map, scored_nodes, ranked, rank_pc>>
scoreVars == <<score_args, score_results>>
idVars == <<descriptors, node_ids>>
fetchVars == <<fetch_task, fetch_pc, fetched>>
cycVars == <<cycle_fn, cyc_pc, cycle_exc, main_loop_active, cycle_nodes, all_metrics,
             signal_received>>
probeVars == <<probe_node, latency_url, probe_pc, probe_latency, probe_started, probe_error,
               probe_result>>
\* The variables no action of the evaluation pipeline or of NodeHistory writes.
healthVars == <<xray_binary_is_file, report_file, readyz>>
otherVars == <<storeVars, rankVars, scoreVars, idVars, fetchVars, cycVars, probeVars,
               healthVars>>
vars == <<orch, tester, ports, pc, port, metrics, released, tmpfile, proc,
          sem, collected, metrics_list, opc, caught, h, node_history, log, updates, raised,
          restored,
          history_file, saved, fresh, load_outcome,
          raw_configs, metrics_map, scored_nodes, ranked, rank_pc,
          score_args, score_results, descriptors, node_ids,
          fetch_task, fetch_pc, fetched,
          cycle_fn, cyc_pc, cycle_exc, main_loop_active, cycle_nodes, all_metrics,
          signal_received,
          probe_node, latency_url, probe_pc, probe_latency, probe_started, probe_error,
          probe_result, xray_binary_is_file, report_file, readyz>>

\* ================================================================ port pool
\* PortManager.__init__: every port of range(start_port, end_port + 1), in order.
RECURSIVE RangeSeq(_, _)
RangeSeq(lo, hi) == IF lo > hi THEN <<>> ELSE <<lo>> \o RangeSeq(lo + 1, hi)

PortManagerInitShort(start_port, end_port) == RangeSeq(start_port, end_port - 1)

PortManagerInit(start_port, end_port) == RangeSeq(start_port, end_port)

\* asyncio.Queue.get: the head of the queue, removed from it.
QueueGetKeep(q) == q
QueueGet(q) == Tail(q)

\* asyncio.Queue.put on an unbounded queue: appended at the tail.
QueuePutDrop(q, p) == q
QueuePut(q, p) == Append(q, p)

\* ================================================================ NodeMetrics
NoMetrics == [node |-> 0, success |-> FALSE, latency_ms |-> 0,
              throughput_kbps |-> 0, error |-> "unset"]

\* NodeMetrics(node_id, success, latency_ms=0.0, throughput_kbps=0.0, error=None)
NodeMetrics(t, success, latency_ms, throughput_kbps, error) ==
    [node |-> t, success |-> success, latency_ms |-> latency_ms,
     throughput_kbps |-> throughput_kbps, error |-> error]

\* The except clauses of XrayTester.test_node, in order: the error label of the
\* failed NodeMetrics built for an exception of class exc.
XrayErrorLabel(exc) ==
    CASE exc = "XrayConfigError"     -> "config_error"
      [] exc = "XrayStartupError"    -> "startup_error"
      [] exc = "ConnectionTestError" -> "connection_error"
      [] OTHER                       -> "unknown_error"

\* ====================================================== XrayTester.test_node
\* port = await self.port_manager.get_port(); blocks while the queue is empty.
GetPort(t) ==
    /\ pc[t] \in {"get_port", "h_get_port"}
    /\ ports # <<>>
    /\ port' = [port EXCEPT ![t] = Head(ports)]
    /\ ports' = QueueGet(ports)
    /\ pc' = [pc EXCEPT ![t] = IF pc[t] = "get_port" THEN "aenter" ELSE "h_select"]
    /\ UNCHANGED <<otherVars, histVars, caught, orch, tester, metrics, released, tmpfile, proc, sem,
                   collected, metrics_list, opc>>

\* The exception test_node catches: the failed NodeMetrics is built in the
\* except clause and the finally clause is next.
XrayFailPropagates(t, exc, leaked) ==
    /\ tmpfile' = [tmpfile EXCEPT ![t] = leaked]
    /\ pc' = [pc EXCEPT ![t] = IF exc = "XrayConfigError" THEN "finally" ELSE "raised"]
    /\ metrics' = [metrics EXCEPT ![t] =
                      IF exc = "XrayConfigError"
                      THEN NodeMetrics(t, FALSE, 0, 0, "config_error") ELSE @]
    /\ caught' = [caught EXCEPT ![t] = IF exc = "XrayConfigError" THEN exc ELSE @]
    /\ UNCHANGED <<otherVars, histVars, orch, tester, ports, port, released, proc, sem,
                   collected, metrics_list, opc>>

XrayFail(t, exc, leaked) ==
    /\ metrics' = [metrics EXCEPT ![t] =
                      NodeMetrics(t, FALSE, 0, 0, XrayErrorLabel(exc))]
    /\ tmpfile' = [tmpfile EXCEPT ![t] = leaked]
    /\ pc' = [pc EXCEPT ![t] = "finally"]
    /\ caught' = [caught EXCEPT ![t] = exc]
    /\ UNCHANGED <<otherVars, histVars, orch, tester, ports, port, released, proc, sem,
                   collected, metrics_list, opc>>

\* async with XrayManager(...): __aenter__ awaits _create_config_file.
\*   parse_v2ray_uri returns None (unsupported scheme, bad vmess payload):
\*       _create_config_file returns None, __aenter__ raises XrayConfigError.
\*   parse_vmess_uri raises (int() of a non-number, undecodable bytes):
\*       the ValueError is not caught below test_node.
\*   tempfile.mkstemp raises OSError: no file was created.
\*   otherwise mkstemp created the file and line 111 enters
\*       "async with asyncio.to_thread(...)": a coroutine is no asynchronous
\*       context manager, so TypeError is raised with the file on disk and
\*       config_path still None.  __aenter__ has raised, so __aexit__ is not
\*       run, and lines 56-77 (binary check, subprocess launch, readiness
\*       wait) are never reached.
XrayManagerEnter(t) ==
    /\ pc[t] = "aenter"
    /\ \/ XrayFail(t, "XrayConfigError", FALSE)
       \/ XrayFail(t, "ValueError", FALSE)
       \/ XrayFail(t, "OSError", FALSE)
       \/ XrayFail(t, "TypeError", TRUE)

\* finally: await self.port_manager.release_port(port); test_node returns.
ReleasePortTwice(t) ==
    /\ pc[t] \in {"finally", "h_finally"}
    /\ ports' = QueuePut(QueuePut(ports, port[t]), port[t])
    /\ released' = [released EXCEPT ![t] = @ + 2]
    /\ port' = [port EXCEPT ![t] = NoPort]
    /\ pc' = [pc EXCEPT ![t] = IF pc[t] = "finally" THEN "returned" ELSE "h_aexit"]
    /\ UNCHANGED <<otherVars, histVars, caught, orch, tester, metrics, tmpfile, proc, sem,
                   collected, metrics_list, opc>>

ReleasePort(t) ==
    /\ pc[t] \in {"finally", "h_finally"}
    /\ ports' = QueuePut(ports, port[t])
    /\ released' = [released EXCEPT ![t] = @ + 1]
    /\ port' = [port EXCEPT ![t] = NoPort]
    /\ pc' = [pc EXCEPT ![t] = IF pc[t] = "finally" THEN "returned" ELSE "h_aexit"]
    /\ UNCHANGED <<otherVars, histVars, caught, orch, tester, metrics, tmpfile, proc, sem,
                   collected, metrics_list, opc>>

\* ================================================ test_all_nodes (src/main.py)
\* async with semaphore: entered while the semaphore's value is positive.
SemAcquire(t) ==
    /\ opc = "testing" /\ pc[t] = "sem_wait"
    /\ sem > 0
    /\ sem' = sem - 1
    /\ pc' = [pc EXCEPT ![t] = "construct"]
    /\ UNCHANGED <<otherVars, histVars, caught, orch, tester, ports, port, metrics, released, tmpfile, proc,
                   collected, metrics_list, opc>>

\* The as_completed loop of test_all_nodes awaits the tasks in the order they
\* finish: the metrics of a task that returned are appended to metrics_list,
\* the exception of a task that raised is logged and nothing is appended.
\* The loop shares no state with the tasks, so its step for a task is taken
\* together with the step that finishes the task.
AsCompleted(t, ok) ==
    /\ collected' = collected \cup {t}
    /\ metrics_list' = IF ok THEN Append(metrics_list, metrics[t]) ELSE metrics_list

\* An exception leaves test_with_semaphore: "async with semaphore" releases
\* the semaphore and the task ends with the exception set.
TaskRaise(t) ==
    /\ sem' = sem + 1
    /\ pc' = [pc EXCEPT ![t] = "raised"]
    /\ AsCompleted(t, FALSE)
    /\ UNCHANGED <<otherVars, histVars, caught, orch, tester, ports, port, metrics, released, tmpfile,
                   proc, opc>>

\* async with tester_class(config, port_manager) as tester, tester_class being
\* XrayTester: __init__ raises FileNotFoundError when the binary is no file;
\* otherwise the instance has no __aenter__ and "async with" raises TypeError.
XrayTesterEnter(t) ==
    /\ tester = "xray" /\ pc[t] = "construct"
    /\ \/ TaskRaise(t)      \* FileNotFoundError
       \/ TaskRaise(t)      \* TypeError

\* HiddifyTester.__aenter__: create_subprocess_exec raises OSError, or the
\* subprocess runs and the coroutine sleeps one second.
HiddifyTesterEnter(t) ==
    /\ tester = "hiddify" /\ pc[t] = "construct"
    /\ \/ TaskRaise(t)
       \/ /\ proc' = [proc EXCEPT ![t] = "running"]
          /\ pc' = [pc EXCEPT ![t] = "h_sleep"]
          /\ UNCHANGED <<otherVars, histVars, caught, orch, tester, ports, port, metrics, released, tmpfile,
                         sem, collected, metrics_list, opc>>

\* await asyncio.sleep(1) is over; tester.test_node(node) is awaited.
HiddifySleepDone(t) ==
    /\ pc[t] = "h_sleep"
    /\ pc' = [pc EXCEPT ![t] = "h_get_port"]
    /\ UNCHANGED <<otherVars, histVars, caught, orch, tester, ports, port, metrics, released, tmpfile, proc,
                   sem, collected, metrics_list, opc>>

\* The engine subprocess exits: by itself, or after terminate().  Its exit is
\* observed only by __aexit__ (returncode, wait), so it is taken there.
ProcExit(t) ==
    /\ proc[t] = "running"
    /\ pc[t] \in {"h_aexit", "h_wait"}
    /\ proc' = [proc EXCEPT ![t] = "exited"]
    /\ UNCHANGED <<otherVars, histVars, caught, orch, tester, ports, pc, port, metrics, released, tmpfile,
                   sem, collected, metrics_list, opc>>

\* =================================================== HiddifyTester.test_node
MAX_LATENCY_MS == 2000
MIN_THROUGHPUT_KBPS == 100
\* "delay" values of proxy.urltest (-1: key missing) and download_speed / 1024
\* values (0: key missing).
Delays == {-1, 100, 2500}
Speeds == {0, 100, 8000}

\* The try block ends (normally or in an except clause) with these locals;
\* the finally clause is next and the NodeMetrics is built from them.
HiddifyEnd(t, success, latency_ms, throughput_kbps) ==
    /\ metrics' = [metrics EXCEPT ![t] =
                      NodeMetrics(t, success, latency_ms, throughput_kbps, "none")]
    /\ pc' = [pc EXCEPT ![t] = "h_finally"]
    /\ UNCHANGED <<otherVars, histVars, caught, orch, tester, ports, port, released, tmpfile, proc, sem,
                   collected, metrics_list, opc>>

\* 1. proxy.select: returns, or _rpc_call raises (RuntimeError, ClientError,
\* or another exception such as a timeout); both except clauses only log.
HiddifySelect(t) ==
    /\ pc[t] = "h_select"
    /\ \/ /\ pc' = [pc EXCEPT ![t] = "h_latency"]
          /\ UNCHANGED <<otherVars, histVars, caught, orch, tester, ports, port, metrics, released, tmpfile,
                         proc, sem, collected, metrics_list, opc>>
       \/ HiddifyEnd(t, FALSE, -1, -1)

\* 2. proxy.urltest for latency: throughput is tested only when
\* 0 < latency_ms < MAX_LATENCY_MS.
HiddifyLatency(t) ==
    /\ pc[t] = "h_latency"
    /\ \/ \E d \in Delays :
            IF d > 0 /\ d < MAX_LATENCY_MS
            THEN /\ metrics' = [metrics EXCEPT ![t] = NodeMetrics(t, FALSE, d, -1, "none")]
                 /\ pc' = [pc EXCEPT ![t] = "h_speed"]
                 /\ UNCHANGED <<otherVars, histVars, caught, orch, tester, ports, port, released, tmpfile,
                                proc, sem, collected, metrics_list, opc>>
            ELSE HiddifyEnd(t, FALSE, d, -1)
       \/ HiddifyEnd(t, FALSE, -1, -1)

\* 3. proxy.urltest for throughput: success only above MIN_THROUGHPUT_KBPS.
HiddifySpeed(t) ==
    /\ pc[t] = "h_speed"
    /\ \/ \E k \in Speeds :
            IF k > MIN_THROUGHPUT_KBPS
            THEN HiddifyEnd(t, TRUE, metrics[t].latency_ms, k)
            ELSE HiddifyEnd(t, FALSE, metrics[t].latency_ms, -1)
       \/ HiddifyEnd(t, FALSE, metrics[t].latency_ms, -1)

\* HiddifyTester.__aexit__: a running subprocess is sent terminate() and
\* waited for (without a timeout); then the session is closed, the
\* semaphore is released and the task ends with the metrics.
HiddifyExit(t) ==
    /\ pc[t] = "h_aexit"
    /\ IF proc[t] = "running"
       THEN /\ pc' = [pc EXCEPT ![t] = "h_wait"]
            /\ UNCHANGED <<sem, collected, metrics_list>>
       ELSE /\ pc' = [pc EXCEPT ![t] = "returned"]
            /\ sem' = sem + 1
            /\ AsCompleted(t, TRUE)
    /\ UNCHANGED <<otherVars, histVars, caught, orch, tester, ports, port, metrics, released, tmpfile,
                   proc, opc>>

\* await self.process.wait() returns once the subprocess has exited.
HiddifyWaitDone(t) ==
    /\ pc[t] = "h_wait" /\ proc[t] = "exited"
    /\ pc' = [pc EXCEPT ![t] = "returned"]
    /\ sem' = sem + 1
    /\ AsCompleted(t, TRUE)
    /\ UNCHANGED <<otherVars, histVars, caught, orch, tester, ports, port, metrics, released, tmpfile,
                   proc, opc>>

\* The loop is exhausted: return metrics_list.
TestAllNodesReturn ==
    /\ orch = "test_all_nodes" /\ opc = "testing"
    /\ collected = Nodes
    /\ opc' = "done"
    /\ UNCHANGED <<otherVars, histVars, caught, orch, tester, ports, pc, port, metrics, released, tmpfile,
                   proc, sem, collected, metrics_list>>

\* ======================================================== run_once (main.py)
\* all_metrics = await asyncio.gather(*test_tasks): every task has returned;
\* the results are in the order of the nodes.
GatherDone ==
    /\ orch = "run_once" /\ opc = "testing"
    /\ \A t \in Nodes : pc[t] = "returned"
    /\ metrics_list' = [t \in Nodes |-> metrics[t]]
    /\ collected' = Nodes
    /\ opc' = "done"
    /\ UNCHANGED <<otherVars, histVars, caught, orch, tester, ports, pc, port, metrics, released, tmpfile,
                   proc, sem>>

\* ============================================== NodeHistory (src/history.py)
\* NodeHistory.__init__: an empty deque(maxlen=max_size) and zero counters.
NodeHistoryNew(max_size) ==
    [max_size |-> max_size, test_results |-> <<>>, success_count |-> 0,
     total_tests |-> 0]

\* deque.append on a deque(maxlen): a full deque drops its leftmost entry; a
\* deque of maxlen 0 stays empty.
DequeAppend(d, maxlen, x) ==
    IF maxlen = 0 THEN d
    ELSE IF Len(d) = maxlen THEN Append(Tail(d), x) ELSE Append(d, x)

\* add_test_result raises IndexError when the deque is "full" and empty
\* (maxlen 0): self.test_results[0] does not exist.
AddRaises(nh) == Len(nh.test_results) = nh.max_size /\ nh.test_results = <<>>

AddTestResultNoEvictAdjust(nh, success) ==
    LET tr == DequeAppend(nh.test_results, nh.max_size, success)
    IN  [max_size |-> nh.max_size, test_results |-> tr,
         success_count |-> IF success THEN nh.success_count + 1 ELSE nh.success_count,
         total_tests |-> Len(tr)]

\* NodeHistory.add_test_result, when it does not raise.
AddTestResult(nh, success) ==
    LET full == Len(nh.test_results) = nh.max_size
        sc1  == IF full /\ Head(nh.test_results)
                THEN nh.success_count - 1 ELSE nh.success_count
        tr   == DequeAppend(nh.test_results, nh.max_size, success)
        sc2  == IF success THEN sc1 + 1 ELSE sc1
    IN  [max_size |-> nh.max_size, test_results |-> tr, success_count |-> sc2,
         total_tests |-> Len(tr)]

\* NodeHistory.reliability as the fraction <<numerator, denominator>>;
\* <<1, 1>> is the 1.0 returned while total_tests is 0.
ReliabilityOfFailures(nh) ==
    IF nh.total_tests = 0 THEN <<1, 1>>
    ELSE <<nh.total_tests - nh.success_count, nh.total_tests>>

Reliability(nh) ==
    IF nh.total_tests = 0 THEN <<1, 1>> ELSE <<nh.success_count, nh.total_tests>>

\* The dict HistoryManager.node_history, as a function on the ids it holds.
EmptyDict == [k \in {} |-> NodeHistoryNew(DEFAULT_MAX_SIZE)]
DictSet(d, k, v) == [x \in (DOMAIN d) \cup {k} |-> IF x = k THEN v ELSE d[x]]

\* HistoryManager.update_node_history: a NodeHistory() of the default
\* capacity is created for an id not yet known, then the result is added.
UpdateNodeHistory(d, node_id, success) ==
    LET nh == IF node_id \in DOMAIN d THEN d[node_id]
              ELSE NodeHistoryNew(DEFAULT_MAX_SIZE)
    IN  DictSet(d, node_id, AddTestResult(nh, success))

\* HistoryManager.get_reliability: 1.0 for an id not in the dict.
GetReliability(d, node_id) ==
    IF node_id \notin DOMAIN d THEN <<1, 1>> ELSE Reliability(d[node_id])

\* h.add_test_result(success), and the same call on the restored object
\* once there is one.
AddResult(success) ==
    /\ Len(log) < MaxAdds
    /\ restored # <<>> => Len(restored[1].test_results) < MaxAdds
    /\ IF AddRaises(h)
       THEN /\ raised' = TRUE
            /\ UNCHANGED <<h, log>>
       ELSE /\ h' = AddTestResult(h, success)
            /\ log' = Append(log, success)
            /\ raised' = FALSE
    /\ restored' = IF restored = <<>> \/ AddRaises(restored[1]) THEN restored
                   ELSE <<AddTestResult(restored[1], success)>>
    /\ UNCHANGED <<otherVars, evalVars, node_history, updates>>

\* history.update_node_history(node_id, success)
Update(node_id, success) ==
    /\ updates < MaxUpdates
    /\ node_history' = UpdateNodeHistory(node_history, node_id, success)
    /\ updates' = updates + 1
    /\ UNCHANGED <<otherVars, evalVars, h, log, raised, restored>>

\* ======================================== HistoryManager save / load (history.py)
\* What the history file holds: no file, text that is no JSON (also a file
\* cut short by a failed write), or a JSON document.  A JSON document is an
\* array or an object; a member of the object is a number or an object.
JsonArray == [type |-> "array", members |-> EmptyDict]
JsonObject(members) == [type |-> "object", members |-> members]
FileMissing == [kind |-> "missing", doc |-> JsonArray]
FileNoJson == [kind |-> "no_json", doc |-> JsonArray]
FileJson(doc) == [kind |-> "json", doc |-> doc]
JsonNumber == [type |-> "number", fields |-> [k \in {} |-> 0]]
JsonRecord(fields) == [type |-> "object", fields |-> fields]

\* dict.get(key, default)
DictGet(d, key, default) == IF key \in DOMAIN d THEN d[key] ELSE default

\* deque.extend on a deque(maxlen): the entries are appended one by one.
RECURSIVE DequeExtend(_, _, _)
DequeExtend(d, maxlen, xs) ==
    IF xs = <<>> THEN d
    ELSE DequeExtend(DequeAppend(d, maxlen, Head(xs)), maxlen, Tail(xs))

\* NodeHistory.to_dict: the window as a list and the two counters; max_size
\* is not written.
ToDictNoCount(nh) ==
    [test_results |-> nh.test_results, total_tests |-> nh.total_tests]

ToDict(nh) ==
    [test_results |-> nh.test_results, success_count |-> nh.success_count,
     total_tests |-> nh.total_tests]

\* NodeHistory.from_dict on a JSON object: missing keys take their defaults.
FromDict(data) ==
    LET max_size == DictGet(data, "max_size", DEFAULT_MAX_SIZE)
    IN  [max_size |-> max_size,
         test_results |-> DequeExtend(<<>>, max_size, DictGet(data, "test_results", <<>>)),
         success_count |-> DictGet(data, "success_count", 0),
         total_tests |-> DictGet(data, "total_tests", 0)]

\* json.dump of {k: v.to_dict()}: str keys, lists of booleans and integers
\* are written and read back unchanged.
JsonDump(d) == FileJson(JsonObject([k \in DOMAIN d |-> JsonRecord(ToDict(d[k]))]))

\* restored = NodeHistory.from_dict(h.to_dict())
Restore ==
    /\ restored = <<>>
    /\ restored' = <<FromDict(ToDict(h))>>
    /\ UNCHANGED <<otherVars, evalVars, h, node_history, log, updates, raised>>

\* load_history raises when the document is valid JSON but data.items() or
\* from_dict's data.get does not exist (AttributeError): only JSONDecodeError
\* and IOError are caught.
LoadRaises(f) ==
    /\ f.kind = "json"
    /\ \/ f.doc.type # "object"
       \/ \E k \in DOMAIN f.doc.members : f.doc.members[k].type # "object"

\* The node_history load_history leaves behind when it returns, starting
\* from the dict nh0: unchanged without a file, empty after JSONDecodeError
\* or IOError, else rebuilt from the document.
LoadResult(f, nh0, io_error) ==
    IF f.kind = "missing" THEN nh0
    ELSE IF io_error \/ f.kind = "no_json" THEN EmptyDict
    ELSE [k \in DOMAIN f.doc.members |-> FromDict(f.doc.members[k].fields)]

\* HistoryManager.save_history: open(..., 'w') fails (IOError is logged, the
\* file is as before), the write fails part-way (the file is cut short), or
\* the document is written.
SaveHistory ==
    /\ load_outcome = "none"
    /\ \/ UNCHANGED <<history_file, saved>>
       \/ /\ history_file' = FileNoJson
          /\ UNCHANGED saved
       \/ /\ history_file' = JsonDump(node_history)
          /\ saved' = node_history
    /\ UNCHANGED <<idVars, fetchVars, cycVars, healthVars, probeVars, evalVars, histVars, rankVars, scoreVars, fresh, load_outcome>>

\* HistoryManager.load_history on the fresh manager.
LoadHistory ==
    /\ load_outcome = "none"
    /\ \/ /\ LoadRaises(history_file)
          /\ load_outcome' = "raised"
          /\ UNCHANGED fresh
       \/ /\ ~LoadRaises(history_file)
          /\ \E io_error \in BOOLEAN :
                /\ io_error => history_file.kind # "missing"
                /\ fresh' = LoadResult(history_file, fresh, io_error)
                /\ load_outcome' =
                      IF history_file.kind = "missing" THEN "not_found"
                      ELSE IF io_error \/ history_file.kind = "no_json"
                           THEN "starting_fresh" ELSE "loaded"
    /\ UNCHANGED <<idVars, fetchVars, cycVars, healthVars, probeVars, evalVars, histVars, rankVars, scoreVars, history_file, saved>>

\* ================================== MetricsAnalyzer (src/network_metrics.py)
\* An Optional value: <<>> is None, <<v>> holds v.
None == <<>>
Some(v) == <<v>>

\* Floats as exact fractions <<numerator, denominator>>, denominator > 0.
RECURSIVE GCD(_, _)
GCD(a, b) == IF b = 0 THEN a ELSE GCD(b, a % b)
Abs(a) == IF a < 0 THEN 0 - a ELSE a
Frac(n, d) ==
    LET g == GCD(Abs(n), d) IN IF g = 0 THEN <<0, 1>> ELSE <<n \div g, d \div g>>
FromInt(n) == <<n, 1>>
RAdd(x, y) == Frac(x[1] * y[2] + y[1] * x[2], x[2] * y[2])
RSub(x, y) == Frac(x[1] * y[2] - y[1] * x[2], x[2] * y[2])
RMul(x, y) == Frac(x[1] * y[1], x[2] * y[2])
RLe(x, y) == x[1] * y[2] <= y[1] * x[2]
RLt(x, y) == x[1] * y[2] < y[1] * x[2]
RMax(x, y) == IF RLe(x, y) THEN y ELSE x
RMin(x, y) == IF RLe(x, y) THEN x ELSE y

\* The thresholds, ideals and weights the scorer reads from Config.  The
\* Config class of src/config.py declares MAX_LATENCY_MS, MIN_THROUGHPUT_KBPS
\* and MIN_RELIABILITY; the others are declared nowhere in the source and
\* take values that meet the specification: weights that sum to 1 with
\* throughput slightly above latency and both far above jitter and loss, and
\* a reliability factor that blends a fixed baseline with the measured ratio.
IDEAL_LATENCY_MS == 50
IDEAL_JITTER_MS == 5
MAX_JITTER_MS == 50
IDEAL_THROUGHPUT_KBPS == 10000
IDEAL_PACKET_LOSS == 0
MAX_PACKET_LOSS == 5
LATENCY_WEIGHT == <<35, 100>>
JITTER_WEIGHT == <<10, 100>>
THROUGHPUT_WEIGHT == <<45, 100>>
PACKET_LOSS_WEIGHT == <<10, 100>>
RELIABILITY_WEIGHT == <<1, 2>>
SUPPORTED_PROTOCOLS == {"vmess", "vless", "trojan", "ss"}
MIN_RELIABILITY == <<3, 4>>

\* Metrics(success, latency_ms=None, jitter_ms=None, packet_loss=None,
\*         throughput_kbps=None, reliability=1.0)
Metrics(success, latency_ms, jitter_ms, packet_loss, throughput_kbps, reliability) ==
    [success |-> success, latency_ms |-> latency_ms, jitter_ms |-> jitter_ms,
     packet_loss |-> packet_loss, throughput_kbps |-> throughput_kbps,
     reliability |-> reliability]

\* _normalize_log(value, ideal): 0.0 for a value <= 0, else ideal / value
\* clamped to [0, 1].
NormalizeLog(value, ideal) ==
    IF value <= 0 THEN <<0, 1>>
    ELSE LET i == IF ideal <= 0 THEN 1 ELSE ideal
         IN  RMax(<<0, 1>>, RMin(<<1, 1>>, Frac(i, value)))

NormalizeLinearUnclamped(value, min_val, max_val, reverse) ==
    IF reverse
    THEN Frac(max_val - value, max_val - min_val)
    ELSE Frac(value - min_val, max_val - min_val)

\* _normalize_linear(value, min_val, max_val, reverse)
NormalizeLinear(value, min_val, max_val, reverse) ==
    IF reverse
    THEN IF value >= max_val THEN <<0, 1>>
         ELSE IF value <= min_val THEN <<1, 1>>
         ELSE Frac(max_val - value, max_val - min_val)
    ELSE IF value <= min_val THEN <<0, 1>>
         ELSE IF value >= max_val THEN <<1, 1>>
         ELSE Frac(value - min_val, max_val - min_val)

GetLatencyScore(latency_ms) == NormalizeLog(latency_ms, IDEAL_LATENCY_MS)
GetJitterScore(jitter_ms) ==
    NormalizeLinear(jitter_ms, IDEAL_JITTER_MS, MAX_JITTER_MS, TRUE)
GetThroughputScore(throughput_kbps) ==
    NormalizeLinear(throughput_kbps, 0, IDEAL_THROUGHPUT_KBPS, FALSE)
GetPacketLossScore(packet_loss) ==
    NormalizeLinear(packet_loss, IDEAL_PACKET_LOSS, MAX_PACKET_LOSS, TRUE)

ScoreIgnoringSuccess(om) ==
    IF om = None THEN <<0, 1>>
    ELSE LET m == om[1] IN
         IF m.latency_ms = None \/ m.throughput_kbps = None \/ m.jitter_ms = None
         THEN <<0, 1>>
         ELSE <<50, 1>>

\* MetricsAnalyzer.score on an Optional[Metrics]: the score as a fraction.
Score(om) ==
    IF om = None THEN <<0, 1>>
    ELSE LET m == om[1] IN
    IF ~m.success \/ m.latency_ms = None \/ m.throughput_kbps = None
                  \/ m.jitter_ms = None
    THEN <<0, 1>>
    ELSE LET latency     == GetLatencyScore(m.latency_ms[1])
             jitter      == GetJitterScore(m.jitter_ms[1])
             throughput  == GetThroughputScore(m.throughput_kbps[1])
             packet_loss == GetPacketLossScore(
                               IF m.packet_loss = None THEN 0 ELSE m.packet_loss[1])
             final_score == RAdd(RAdd(RMul(latency, LATENCY_WEIGHT),
                                      RMul(jitter, JITTER_WEIGHT)),
                                 RAdd(RMul(throughput, THROUGHPUT_WEIGHT),
                                      RMul(packet_loss, PACKET_LOSS_WEIGHT)))
             reliability_factor ==
                 IF m.reliability = None THEN <<1, 1>> ELSE m.reliability[1]
             scaled == RMul(final_score,
                            RAdd(RMul(RELIABILITY_WEIGHT, reliability_factor),
                                 RSub(<<1, 1>>, RELIABILITY_WEIGHT)))
         IN  RMax(<<0, 1>>, RMul(scaled, <<100, 1>>))

\* MetricsAnalyzer.score is called on each of the two Metrics objects.
ScoreCalls ==
    /\ score_results = <<>>
    /\ score_results' = <<Score(Some(score_args[1])), Score(Some(score_args[2]))>>
    /\ UNCHANGED <<idVars, fetchVars, cycVars, healthVars, probeVars, evalVars, histVars, storeVars, rankVars, score_args>>

\* ================================================== filter_and_rank (filter.py)
\* A config line "scheme://rest#remark"; scheme is "" when the line does not
\* start with \w+://.
ConfigLine(scheme, rest, remark) == [scheme |-> scheme, rest |-> rest, remark |-> remark]

\* str.lower() on the schemes of the model.
Lower(str) ==
    CASE str = "TROJAN" -> "trojan"
      [] str = "VMESS"  -> "vmess"
      [] OTHER          -> str

\* config.split("#")[0].strip()
BaseConfig(config) == [scheme |-> config.scheme, rest |-> config.rest]

\* round(x * scale) as the format specs .1f and .2f round: to nearest, ties
\* to even.
RoundScaled(x, scale) ==
    LET n == x[1] * scale
        q == n \div x[2]
        r == n % x[2]
    IN  IF 2 * r < x[2] THEN q
        ELSE IF 2 * r > x[2] THEN q + 1
        ELSE IF q % 2 = 0 THEN q ELSE q + 1

\* _create_remark: "[S:<score:.1f>]-Speed:<thr>-Latency:<lat>ms-Jitter:<jit>ms";
\* the throughput is shown in MB/s (kbps / 1024, two decimals) from 1000 on,
\* an absent value is shown as N/A (None here).
CreateRemark(m, score) ==
    [S |-> RoundScaled(score, 10),
     unit |-> IF m.throughput_kbps # None /\ m.throughput_kbps[1] >= 1000
              THEN "MB/s" ELSE "KB/s",
     speed |-> IF m.throughput_kbps = None THEN None
               ELSE IF m.throughput_kbps[1] >= 1000
                    THEN Some(RoundScaled(Frac(m.throughput_kbps[1], 1024), 100))
                    ELSE m.throughput_kbps,
     latency |-> m.latency_ms,
     jitter |-> m.jitter_ms]

\* metrics_map.get(config)
MapGet(map, config) == IF config \in DOMAIN map THEN map[config] ELSE None

\* _is_node_eligible(config, metrics)
IsNodeEligible(config, om) ==
    IF config.scheme = "" \/ Lower(config.scheme) \notin SUPPORTED_PROTOCOLS
    THEN FALSE
    ELSE IF om = None \/ ~om[1].success THEN FALSE
    ELSE IF om[1].latency_ms = None \/ om[1].latency_ms[1] > MAX_LATENCY_MS THEN FALSE
    ELSE IF om[1].throughput_kbps = None
            \/ om[1].throughput_kbps[1] < MIN_THROUGHPUT_KBPS THEN FALSE
    ELSE TRUE

\* The list comprehension of filter_and_rank: the positions of raw_configs
\* whose config is eligible, in order.
RECURSIVE EligibleFrom(_, _, _)
EligibleFrom(configs, map, i) ==
    IF i > Len(configs) THEN <<>>
    ELSE (IF IsNodeEligible(configs[i], MapGet(map, configs[i])) THEN <<i>> ELSE <<>>)
         \o EligibleFrom(configs, map, i + 1)

\* _score_and_prepare_nodes: a (score, final_config) tuple for every eligible
\* config whose score is above 1; src is the position the tuple came from.
RECURSIVE ScoreAndPrepareNodes(_, _, _)
ScoreAndPrepareNodes(configs, eligible, map) ==
    IF eligible = <<>> THEN <<>>
    ELSE LET config == configs[Head(eligible)]
             om     == MapGet(map, config)
             score  == Score(om)
             rest   == ScoreAndPrepareNodes(configs, Tail(eligible), map)
         IN  IF om = None \/ RLe(score, <<1, 1>>) THEN rest
             ELSE <<[score |-> score, src |-> Head(eligible),
                     final_config |-> [base |-> BaseConfig(config),
                                       remark |-> CreateRemark(om[1], score)]]>> \o rest

\* list.sort(reverse=True, key=score): descending, and tuples of equal score
\* keep their order (the sort is stable also when reversed).
RECURSIVE InsertDesc(_, _)
InsertDesc(sorted, t) ==
    IF sorted = <<>> THEN <<t>>
    ELSE IF RLt(Head(sorted).score, t.score) THEN <<t>> \o sorted
    ELSE <<Head(sorted)>> \o InsertDesc(Tail(sorted), t)

RECURSIVE SortReverseUnstable(_)
SortReverseUnstable(tuples) ==
    IF tuples = <<>> THEN <<>>
    ELSE InsertDesc(SortReverseUnstable(Tail(tuples)), Head(tuples))

RECURSIVE SortReverseFrom(_, _)
SortReverseFrom(sorted, tuples) ==
    IF tuples = <<>> THEN sorted
    ELSE SortReverseFrom(InsertDesc(sorted, Head(tuples)), Tail(tuples))

SortReverse(tuples) == SortReverseFrom(<<>>, tuples)

\* filter_and_rank(raw_configs, metrics_map): the sorted tuples.
FilterAndRankTuples(configs, map) ==
    SortReverse(ScoreAndPrepareNodes(configs, EligibleFrom(configs, map, 1), map))

\* The call: it builds new lists and leaves its arguments as they are.
FilterAndRank ==
    /\ rank_pc = "ready"
    /\ scored_nodes' = FilterAndRankTuples(raw_configs, metrics_map)
    /\ ranked' = [i \in 1 .. Len(scored_nodes') |-> scored_nodes'[i].final_config]
    /\ rank_pc' = "returned"
    /\ UNCHANGED <<idVars, fetchVars, cycVars, healthVars, probeVars, evalVars, histVars, storeVars, scoreVars, raw_configs, metrics_map>>

\* ============================================== Node.__post_init__ (models.py)
\* A node descriptor is the text  scheme://user@host:port/path#remark  (form
\* "uri"; the port and the path may be missing), or a vmess share link
\* vmess://<base64 of a JSON object>#remark  (form "vmess_b64"), whose host
\* ("add"), port, user id and remark ("ps") are inside the base64 text.
Descriptor(form, scheme, user, host, portno, path, ps, remark) ==
    [form |-> form, scheme |-> scheme, user |-> user, host |-> host, port |-> portno,
     path |-> path, ps |-> ps, remark |-> remark]

\* urlparse(base_config): for a vmess share link the network location is the
\* base64 text, so hostname is that text and port is None.
ParsedPort(d) == IF d.form = "uri" THEN d.port ELSE None
ParsedPath(d) == IF d.form = "uri" THEN d.path ELSE ""

\* The identifier that is hashed: "host:port", "host:port:path" for ws and
\* grpc with a path other than "/", else the whole text before '#'.
Identifier(d) ==
    IF ParsedPort(d) # None /\ ParsedPort(d) # Some(0)
    THEN IF d.scheme \in {"ws", "grpc"} /\ ParsedPath(d) \notin {"", "/"}
         THEN [kind |-> "host:port:path", scheme |-> "", user |-> "", host |-> d.host,
               port |-> d.port, path |-> d.path, ps |-> ""]
         ELSE [kind |-> "host:port", scheme |-> "", user |-> "", host |-> d.host,
               port |-> d.port, path |-> "", ps |-> ""]
    ELSE [kind |-> "base_config", scheme |-> d.scheme, user |-> d.user, host |-> d.host,
          port |-> d.port, path |-> d.path, ps |-> d.ps]

\* hashlib.sha256(identifier).hexdigest(), taken as injective.
Sha256(identifier) == [sha256 |-> identifier]

\* Node(config=...) for both descriptors.
NodePostInit ==
    /\ node_ids = <<>>
    /\ node_ids' = <<Sha256(Identifier(descriptors[1])), Sha256(Identifier(descriptors[2]))>>
    /\ UNCHANGED <<fetchVars, cycVars, healthVars, probeVars, evalVars, histVars, storeVars, rankVars, scoreVars,
                   descriptors>>

\* ================================== XrayTester._perform_tests (xray_tester.py)
\* What the latency probe measures (ms) and what the transfer yields (kbps; 0
\* when nothing was downloaded or no time passed).
ProbeLatencies == {50, 100, 1800, 2500}
ProbeThroughputs == {0, 150, 8000}
\* The exceptions of a probe: no connection, a non-2xx status, a timeout, and
\* any other exception.
ProbeErrors == {"ClientConnectorError", "ClientResponseError", "TimeoutError", "Exception"}

\* Every except clause of _perform_tests raises ConnectionTestError.
PerformTestsError(exc) == "ConnectionTestError"

ProbeFailContinue(probe, exc) ==
    /\ probe_error' = <<probe, exc>>
    /\ probe_pc' = IF probe = "latency" THEN "throughput" ELSE "ended"
    /\ probe_result' =
          IF probe = "latency" THEN probe_result
          ELSE Some(NodeMetrics(probe_node, TRUE, probe_latency[1], 0, "none"))

\* A probe raises exc: _perform_tests raises, test_node returns the failed
\* NodeMetrics of the except clause that matches.
ProbeFail(probe, exc) ==
    /\ probe_error' = <<probe, exc>>
    /\ probe_pc' = "ended"
    /\ probe_result' = Some(NodeMetrics(probe_node, FALSE, 0, 0,
                                        XrayErrorLabel(PerformTestsError(exc))))

\* latency = await self._measure_latency(proxy_url, timeout)
MeasureLatency ==
    /\ probe_pc = "latency"
    /\ probe_started' = probe_started \cup {"latency"}
    /\ IF latency_url = ""
       THEN ProbeFail("latency", "XrayConfigError") /\ UNCHANGED probe_latency
       ELSE \/ \E l \in ProbeLatencies :
                 /\ probe_latency' = Some(l)
                 /\ probe_pc' = "throughput"
                 /\ UNCHANGED <<probe_error, probe_result>>
            \/ \E e \in ProbeErrors : ProbeFail("latency", e) /\ UNCHANGED probe_latency
    /\ UNCHANGED <<evalVars, histVars, storeVars, rankVars, scoreVars, idVars, fetchVars,
                   cycVars, healthVars, probe_node, latency_url>>

\* throughput = await self._measure_throughput(proxy_url, timeout), the
\* return of _perform_tests and the NodeMetrics of line 144.
MeasureThroughput ==
    /\ probe_pc = "throughput"
    /\ probe_started' = probe_started \cup {"throughput"}
    /\ \/ \E k \in ProbeThroughputs :
             /\ probe_result' = Some(NodeMetrics(probe_node, TRUE, probe_latency[1], k, "none"))
             /\ probe_pc' = "ended"
             /\ UNCHANGED probe_error
       \/ \E e \in ProbeErrors : ProbeFail("throughput", e)
    /\ UNCHANGED <<evalVars, histVars, storeVars, rankVars, scoreVars, idVars, fetchVars,
                   cycVars, healthVars, probe_node, latency_url, probe_latency>>

\* =========================================== SubscriptionFetcher (fetcher.py)
\* Config.MAX_RETRIES, RETRY_DELAY (seconds) and BACKOFF_FACTOR.
MAX_RETRIES == 2
RETRY_DELAY == 1
BACKOFF_FACTOR == 2

Sources == 1 .. NumSources

\* A response body: text is str.splitlines() of the body; b64 is what
\* base64.b64decode(...).decode('utf-8') makes of it, again as lines, or None
\* when that raises (the text of config lines is no base64 of UTF-8 text).
Body(text, b64) == [text |-> text, b64 |-> b64]

\* str.strip() on the lines that occur.
Strip(line) ==
    CASE line = " trojan://u1@h1:443 " -> "trojan://u1@h1:443"
      [] line = "  "                   -> ""
      [] OTHER                         -> line

\* utils.decode_base64_text: None for an empty text and when decoding raises.
DecodeBase64Text(body) == IF body.text = <<>> THEN None ELSE body.b64

\* Lines 67-75: the decoded text when there is one, else the body as it is;
\* every line stripped, empty lines dropped.
StrippedLines(lines) ==
    SelectSeq([i \in 1 .. Len(lines) |-> Strip(lines[i])], LAMBDA l : l # "")

SourceLines(body) ==
    LET decoded_text == DecodeBase64Text(body)
        raw_text == IF decoded_text # None /\ decoded_text[1] # <<>>
                    THEN decoded_text[1] ELSE body.text
    IN  StrippedLines(raw_text)

\* The task of one source: the value of attempt, the exception kept in
\* last_exception, the delays slept so far, and how the coroutine ended.
FetchTask(st, attempt, body, exc, slept) ==
    [st |-> st, attempt |-> attempt, body |-> body, exc |-> exc, slept |-> slept]

NewFetchTask == FetchTask("attempt", 0, Body(<<>>, None), "none", <<>>)

PowFlat(b, e) == b

RECURSIVE Pow(_, _)
Pow(b, e) == IF e = 0 THEN 1 ELSE b * Pow(b, e - 1)

\* Lines 61-77: the results of gather in source order; an exception result is
\* skipped.
RECURSIVE AllConfigs(_, _)
AllConfigs(results, i) ==
    IF i > Len(results) THEN <<>>
    ELSE (IF results[i].st = "raised" THEN <<>> ELSE SourceLines(results[i].body))
         \o AllConfigs(results, i + 1)

RECURSIVE DictFromKeysLast(_)
DictFromKeysLast(keys) ==
    IF keys = <<>> THEN <<>>
    ELSE LET front == SubSeq(keys, 1, Len(keys) - 1)
             last  == keys[Len(keys)]
         IN  Append(SelectSeq(DictFromKeysLast(front), LAMBDA k : k # last), last)

\* list(dict.fromkeys(keys)): a key stays where it occurs first.
RECURSIVE DictFromKeys(_)
DictFromKeys(keys) ==
    IF keys = <<>> THEN <<>>
    ELSE LET front == DictFromKeys(SubSeq(keys, 1, Len(keys) - 1))
             last  == keys[Len(keys)]
         IN  IF \E i \in 1 .. Len(front) : front[i] = last
             THEN front ELSE Append(front, last)

\* fetch_all, lines 61-87.
FetchAllResult(results) ==
    LET all_configs == AllConfigs(results, 1)
    IN  IF all_configs = <<>> THEN <<>> ELSE DictFromKeys(all_configs)

\* The bodies a source answers with: plain text, plain text with padded and
\* blank lines, base64 of text, an empty body, and blank text.
Bodies ==
    {Body(<<"trojan://u1@h1:443", "trojan://u2@h1:443">>, None),
     Body(<<" trojan://u1@h1:443 ", "vmess://b64(h2:443)", "  ", "trojan://u1@h1:443">>,
          None),
     Body(<<"b64(text)">>, Some(<<"trojan://u2@h1:443", "vmess://b64(h2:443)">>)),
     Body(<<>>, None),
     Body(<<"  ">>, None)}

\* aiohttp.ClientError (also raise_for_status) and asyncio.TimeoutError are
\* retried; any other exception ends the loop.
RetriedErrors == {"ClientError", "TimeoutError"}

\* One pass of the for loop of _fetch_one_with_retry, up to its await of
\* asyncio.sleep or its end.
FetchAttempt(i) ==
    /\ fetch_pc = "gathering"
    /\ fetch_task[i].st = "attempt"
    /\ LET t == fetch_task[i]
       IN  \/ \E body \in Bodies :
                fetch_task' = [fetch_task EXCEPT ![i] =
                                  FetchTask("returned", t.attempt, body, t.exc, t.slept)]
           \/ \E e \in RetriedErrors :
                fetch_task' = [fetch_task EXCEPT ![i] =
                                  FetchTask(IF t.attempt < MAX_RETRIES
                                            THEN "sleeping" ELSE "raised",
                                            t.attempt, t.body, e, t.slept)]
           \/ fetch_task' = [fetch_task EXCEPT ![i] =
                                FetchTask("raised", t.attempt, t.body, "Exception", t.slept)]
    /\ UNCHANGED <<healthVars, probeVars, evalVars, histVars, storeVars, rankVars, scoreVars, idVars, cycVars,
                   fetch_pc, fetched>>

\* asyncio.sleep(delay) is over: the next pass of the loop.
FetchSleepDone(i) ==
    /\ fetch_pc = "gathering"
    /\ fetch_task[i].st = "sleeping"
    /\ LET t == fetch_task[i]
           delay == RETRY_DELAY * Pow(BACKOFF_FACTOR, t.attempt)
       IN  fetch_task' = [fetch_task EXCEPT ![i] =
                             FetchTask("attempt", t.attempt + 1, t.body, t.exc,
                                       Append(t.slept, delay))]
    /\ UNCHANGED <<healthVars, probeVars, evalVars, histVars, storeVars, rankVars, scoreVars, idVars, cycVars,
                   fetch_pc, fetched>>

\* asyncio.gather(*tasks, return_exceptions=True) has every result; fetch_all
\* runs to its return.
FetchAllReturn ==
    /\ fetch_pc = "gathering"
    /\ \A i \in Sources : fetch_task[i].st \in {"returned", "raised"}
    /\ fetched' = FetchAllResult(fetch_task)
    /\ fetch_pc' = "returned"
    /\ UNCHANGED <<healthVars, probeVars, evalVars, histVars, storeVars, rankVars, scoreVars, idVars, cycVars,
                   fetch_task>>

\* ================================== run_once (main.py), run_scanner (src/main.py)
\* The descriptor a fetched line is.
LineDescriptor(line) ==
    CASE line = "trojan://u1@h1:443" ->
            Descriptor("uri", "trojan", "u1", "h1", Some(443), "", "", "")
      [] line = "trojan://u2@h1:443" ->
            Descriptor("uri", "trojan", "u2", "h1", Some(443), "", "", "")
      [] OTHER ->
            Descriptor("vmess_b64", "vmess", "u1", "h2", Some(443), "", "", "")

\* Node(config=c)
NodeOf(c) == [config |-> c, node_id |-> Sha256(Identifier(LineDescriptor(c)))]

\* run_once, lines 35-40: the flag is set and fetch_all is awaited.
RunOnceStart ==
    /\ cycle_fn = "run_once" /\ cyc_pc = "start"
    /\ main_loop_active' = TRUE
    /\ fetch_pc' = "gathering"
    /\ cyc_pc' = "fetching"
    /\ UNCHANGED <<healthVars, probeVars, evalVars, histVars, storeVars, rankVars, scoreVars, idVars,
                   fetch_task, fetched, cycle_fn, cycle_exc, cycle_nodes, all_metrics,
                   signal_received>>

\* Lines 41-49: the Node objects; with none the function returns at once.
RunOnceNodes ==
    /\ cycle_fn = "run_once" /\ cyc_pc = "fetching" /\ fetch_pc = "returned"
    /\ cycle_nodes' = [i \in 1 .. Len(fetched) |-> NodeOf(fetched[i])]
    /\ cyc_pc' = IF fetched = <<>> THEN "returned" ELSE "testing"
    /\ UNCHANGED <<healthVars, probeVars, evalVars, histVars, storeVars, rankVars, scoreVars, idVars, fetchVars,
                   cycle_fn, cycle_exc, main_loop_active, all_metrics, signal_received>>

\* Line 50: gather has the NodeMetrics of every node.  The tester is the
\* XrayTester of main(), whose test_node ends in one of its except clauses.
RunOnceTest ==
    /\ cycle_fn = "run_once" /\ cyc_pc = "testing"
    /\ \E errors \in [1 .. Len(cycle_nodes) -> {"config_error", "unknown_error"}] :
          all_metrics' = [i \in 1 .. Len(cycle_nodes) |->
                             NodeMetrics(cycle_nodes[i].node_id, FALSE, 0, 0, errors[i])]
    /\ cyc_pc' = "tested"
    /\ UNCHANGED <<healthVars, probeVars, evalVars, histVars, storeVars, rankVars, scoreVars, idVars, fetchVars,
                   cycle_fn, cycle_exc, main_loop_active, cycle_nodes, signal_received>>

UpdateFirstOnly(d, ms, i) ==
    IF ms = <<>> THEN d ELSE UpdateNodeHistory(d, ms[1].node, ms[1].success)

RECURSIVE UpdateAll(_, _, _)
UpdateAll(d, ms, i) ==
    IF i > Len(ms) THEN d
    ELSE UpdateAll(UpdateNodeHistory(d, ms[i].node, ms[i].success), ms, i + 1)

\* Lines 54-58: the history is updated for every metric, then
\* filter_and_rank(nodes, all_metrics, history, config) is called: the
\* function of filter.py takes two positional arguments, the call raises
\* TypeError and lines 59-74 are not reached.
RunOnceFilterAndRank ==
    /\ cycle_fn = "run_once" /\ cyc_pc = "tested"
    /\ node_history' = UpdateAll(node_history, all_metrics, 1)
    /\ cyc_pc' = "raised"
    /\ cycle_exc' = "TypeError"
    /\ UNCHANGED <<healthVars, probeVars, evalVars, storeVars, rankVars, scoreVars, idVars, fetchVars,
                   h, log, updates, raised, restored,
                   cycle_fn, main_loop_active, cycle_nodes, all_metrics, signal_received>>

\* run_scanner, lines 78-81: the flag is set, then history.load() is looked
\* up: HistoryManager has no attribute load, AttributeError leaves the
\* function and lines 83-117 are not reached.
RunScanner ==
    /\ cycle_fn = "run_scanner" /\ cyc_pc = "start"
    /\ main_loop_active' = TRUE
    /\ cyc_pc' = "raised"
    /\ cycle_exc' = "AttributeError"
    /\ UNCHANGED <<healthVars, probeVars, evalVars, histVars, storeVars, rankVars, scoreVars, idVars, fetchVars,
                   cycle_fn, cycle_nodes, all_metrics, signal_received>>

\* main() of main.py, lines 83-85: HistoryManager(Path(config.OUTPUT_DIR)) is
\* given the output directory as its file, so load_history finds no file or
\* fails to open a directory (IOError, logged) and returns None; "await None"
\* raises TypeError, which leaves main() before the loop of lines 114-128 and
\* the final save of line 131.
Main ==
    /\ cycle_fn = "main" /\ cyc_pc = "start"
    /\ cyc_pc' = "raised"
    /\ cycle_exc' = "TypeError"
    /\ UNCHANGED <<healthVars, probeVars, evalVars, histVars, storeVars, rankVars, scoreVars, idVars, fetchVars,
                   cycle_fn, main_loop_active, cycle_nodes, all_metrics, signal_received>>

\* ================================================ readiness probe (health.py)
\* The module global main_loop_active of src/health/health.py, which
\* readiness_probe reads.  No statement of the program assigns it: run_once
\* and run_scanner import the FastAPI object as health_app and set the
\* attribute main_loop_active of that object.
HealthMainLoopActive == FALSE

\* A scan cycle function is between its first and its last statement.
CycleRunning ==
    /\ cycle_fn \in {"run_once", "run_scanner"}
    /\ cyc_pc \in {"fetching", "testing", "tested", "updated"}

\* GET /readyz
ReadinessProbe ==
    /\ readyz' = [running |-> CycleRunning,
                  status |-> IF ~xray_binary_is_file THEN "not_ready"
                             ELSE IF HealthMainLoopActive THEN "ready"
                             ELSE IF report_file = "recent" THEN "ready"
                             ELSE "not_ready"]
    /\ UNCHANGED <<probeVars, evalVars, histVars, storeVars, rankVars, scoreVars, idVars,
                   fetchVars, cycVars, xray_binary_is_file, report_file>>

\* SIGINT or SIGTERM reaches the process while main() has not yet come to
\* lines 96-98, where signal_handler is installed: SIGTERM has its default
\* disposition and ends the process; SIGINT raises KeyboardInterrupt in
\* asyncio.run, which line 138 catches and logs.
SignalBeforeHandler ==
    /\ cycle_fn = "main" /\ cyc_pc = "start"
    /\ signal_received' = TRUE
    /\ \/ cyc_pc' = "killed" /\ UNCHANGED cycle_exc
       \/ cyc_pc' = "raised" /\ cycle_exc' = "KeyboardInterrupt"
    /\ UNCHANGED <<healthVars, probeVars, evalVars, histVars, storeVars, rankVars, scoreVars, idVars, fetchVars,
                   cycle_fn, main_loop_active, cycle_nodes, all_metrics>>

\* ============================================================ specification
\* run_once is handed the XrayTester main() builds; test_all_nodes is handed
\* the class get_tester_class() returns.
Setups == {<<"run_once", "xray">>, <<"test_all_nodes", "xray">>,
           <<"test_all_nodes", "hiddify">>}

EvalInit(o, te) ==
    /\ orch = o /\ tester = te
    /\ ports = PortManagerInit(XRAY_SOCKS_PORT_START, XRAY_SOCKS_PORT_END)
    /\ pc = [t \in Nodes |-> IF o = "run_once" THEN "get_port" ELSE "sem_wait"]
    /\ port = [t \in Nodes |-> NoPort]
    /\ metrics = [t \in Nodes |-> NoMetrics]
    /\ released = [t \in Nodes |-> 0]
    /\ tmpfile = [t \in Nodes |-> FALSE]
    /\ proc = [t \in Nodes |-> "none"]
    /\ sem = MAX_CONCURRENT_TESTS
    /\ collected = {}
    /\ metrics_list = <<>>
    /\ opc = "testing"
    /\ caught = [t \in Nodes |-> "none"]

InitEval == \E s \in Setups : EvalInit(s[1], s[2])

\* HistoryManager.__init__ and a NodeHistory(max_size) of any small capacity.
HistoryInit(max_size) ==
    /\ h = NodeHistoryNew(max_size)
    /\ node_history = EmptyDict
    /\ log = <<>>
    /\ updates = 0
    /\ raised = FALSE
    /\ restored = <<>>

\* The history file as the program finds it: absent, unreadable as JSON, or
\* a JSON document of another shape than save_history writes.
StartFiles ==
    {FileMissing, FileNoJson, FileJson(JsonArray), FileJson(JsonObject(EmptyDict)),
     FileJson(JsonObject([k \in {"n1"} |-> JsonNumber])),
     FileJson(JsonObject([k \in {"n1"} |-> JsonRecord([total_tests |-> 0])]))}

StoreInit(f) ==
    /\ history_file = f
    /\ saved = EmptyDict
    /\ fresh = EmptyDict
    /\ load_outcome = "none"

\* Config lines: two of one server that differ in the remark, one with an
\* upper-case scheme, one of an unsupported scheme.
ConfigLines ==
    {ConfigLine("vmess", "a", "r1"), ConfigLine("vmess", "a", "r2"),
     ConfigLine("TROJAN", "b", ""), ConfigLine("http", "u", "")}

\* Measurements: none, failed with values, fast and reliable, fast with reliability 0.5,
\* slower, without throughput, latency above MAX_LATENCY_MS, throughput below
\* MIN_THROUGHPUT_KBPS.
MetricsSamples ==
    {None,
     Some(Metrics(FALSE, Some(50), Some(5), None, Some(10000), Some(<<1, 1>>))),
     Some(Metrics(TRUE, Some(50), Some(5), None, Some(10000), Some(<<1, 1>>))),
     Some(Metrics(TRUE, Some(50), Some(5), None, Some(10000), Some(<<1, 2>>))),
     Some(Metrics(TRUE, Some(200), Some(5), Some(0), Some(2500), None)),
     Some(Metrics(TRUE, Some(100), Some(5), None, None, Some(<<1, 1>>))),
     Some(Metrics(TRUE, Some(2500), Some(5), None, Some(10000), Some(<<1, 1>>))),
     Some(Metrics(TRUE, Some(50), Some(5), None, Some(50), Some(<<1, 1>>)))}

Lists(S, n) == UNION {[1 .. k -> S] : k \in 0 .. n}
Range(f) == {f[i] : i \in DOMAIN f}

RankInit(configs, map) ==
    /\ raw_configs = configs
    /\ metrics_map = map
    /\ scored_nodes = <<>>
    /\ ranked = <<>>
    /\ rank_pc = "ready"

\* Measurement values the scorer is called with.
Latencies == {0, 25, 50, 100, 200, 2000}
Throughputs == {0, 50, 2500, 5000, 10000, 20000}
Jitters == {None, Some(5), Some(20)}
PacketLosses == {None, Some(0), Some(5)}
Reliabilities == {None, Some(<<0, 1>>), Some(<<1, 2>>), Some(<<1, 1>>)}
SuccessfulMetrics ==
    {Metrics(TRUE, Some(l), j, p, Some(t), r) :
        l \in Latencies, j \in Jitters, p \in PacketLosses, t \in Throughputs,
        r \in Reliabilities}

\* Two measurements that differ at most in latency, at most in throughput, or
\* at most in jitter.
ScoreInit(a, b) ==
    /\ score_args = <<a, b>>
    /\ score_results = <<>>

DefaultMetrics == Metrics(TRUE, None, None, None, None, Some(<<1, 1>>))

\* Descriptors: URIs with and without a port and a path, and vmess share links.
Descriptors ==
    {Descriptor("uri", sc, u, ho, po, pa, "", r) :
        sc \in {"trojan", "ws"}, u \in {"u1", "u2"}, ho \in {"h1", "h2"},
        po \in {None, Some(443), Some(8443)}, pa \in {"", "/", "/ws"},
        r \in {"", "r1"}}
    \cup
    {Descriptor("vmess_b64", "vmess", u, ho, po, "", ps, r) :
        u \in {"u1", "u2"}, ho \in {"h1", "h2"}, po \in {Some(443), Some(8443)},
        ps \in {"", "r1"}, r \in {"", "r1"}}

NodeIdInit(a, b) ==
    /\ descriptors = <<a, b>>
    /\ node_ids = <<>>

DefaultDescriptor == Descriptor("uri", "trojan", "u1", "h1", Some(443), "", "", "")

\* No cycle function has been called.
CycleInit(fn) ==
    /\ fetch_task = [i \in Sources |-> NewFetchTask]
    /\ fetch_pc = "idle"
    /\ fetched = <<>>
    /\ cycle_fn = fn
    /\ cyc_pc = "start"
    /\ cycle_exc = "none"
    /\ main_loop_active = FALSE
    /\ cycle_nodes = <<>>
    /\ all_metrics = <<>>
    /\ signal_received = FALSE

HealthInit(binary, report) ==
    /\ xray_binary_is_file = binary
    /\ report_file = report
    /\ readyz = <<>>

\* test_node is about to call _perform_tests for node n.
ProbeInit(n, url) ==
    /\ probe_node = n
    /\ latency_url = url
    /\ probe_pc = "latency"
    /\ probe_latency = None
    /\ probe_started = {}
    /\ probe_error = <<>>
    /\ probe_result = None

OtherInit ==
    /\ CycleInit("run_once")
    /\ ProbeInit(1, "")
    /\ HealthInit(TRUE, "missing")
    /\ StoreInit(FileMissing)
    /\ RankInit(<<>>, [c \in {} |-> None])
    /\ ScoreInit(DefaultMetrics, DefaultMetrics)
    /\ NodeIdInit(DefaultDescriptor, DefaultDescriptor)

Init == InitEval /\ HistoryInit(DEFAULT_MAX_SIZE) /\ OtherInit

InitHistory ==
    /\ EvalInit("run_once", "xray")
    /\ \E c \in 0 .. MaxWindow : HistoryInit(c)
    /\ OtherInit

InitStore ==
    /\ EvalInit("run_once", "xray")
    /\ CycleInit("run_once")
    /\ ProbeInit(1, "")
    /\ HealthInit(TRUE, "missing")
    /\ HistoryInit(DEFAULT_MAX_SIZE)
    /\ \E f \in StartFiles : StoreInit(f)
    /\ RankInit(<<>>, [c \in {} |-> None])
    /\ ScoreInit(DefaultMetrics, DefaultMetrics)
    /\ NodeIdInit(DefaultDescriptor, DefaultDescriptor)

InitRank ==
    /\ EvalInit("run_once", "xray")
    /\ CycleInit("run_once")
    /\ ProbeInit(1, "")
    /\ HealthInit(TRUE, "missing")
    /\ HistoryInit(DEFAULT_MAX_SIZE)
    /\ StoreInit(FileMissing)
    /\ \E configs \in Lists(ConfigLines, MaxConfigs) :
          \E map \in [Range(configs) -> MetricsSamples] : RankInit(configs, map)
    /\ ScoreInit(DefaultMetrics, DefaultMetrics)
    /\ NodeIdInit(DefaultDescriptor, DefaultDescriptor)

\* A fast and a slow measurement as the testers produce them: latency and
\* throughput, no jitter, no packet loss; reliability 0.95 from the history.
ExampleFirst == Metrics(TRUE, Some(100), None, None, Some(8000), Some(<<19, 20>>))
ExampleSecond == Metrics(TRUE, Some(1800), None, None, Some(150), Some(<<19, 20>>))
ExampleSamples == {Some(ExampleFirst), Some(ExampleSecond)}

InitExample ==
    /\ EvalInit("run_once", "xray")
    /\ CycleInit("run_once")
    /\ ProbeInit(1, "")
    /\ HealthInit(TRUE, "missing")
    /\ HistoryInit(DEFAULT_MAX_SIZE)
    /\ StoreInit(FileMissing)
    /\ \E configs \in Lists(ConfigLines, MaxConfigs) :
          \E map \in [Range(configs) -> ExampleSamples] : RankInit(configs, map)
    /\ ScoreInit(DefaultMetrics, DefaultMetrics)
    /\ NodeIdInit(DefaultDescriptor, DefaultDescriptor)

InitScore ==
    /\ EvalInit("run_once", "xray")
    /\ CycleInit("run_once")
    /\ ProbeInit(1, "")
    /\ HealthInit(TRUE, "missing")
    /\ HistoryInit(DEFAULT_MAX_SIZE)
    /\ StoreInit(FileMissing)
    /\ RankInit(<<>>, [c \in {} |-> None])
    /\ \E a \in SuccessfulMetrics :
          \/ \E l \in Latencies : ScoreInit(a, [a EXCEPT !.latency_ms = Some(l)])
          \/ \E t \in Throughputs : ScoreInit(a, [a EXCEPT !.throughput_kbps = Some(t)])
          \/ \E j \in Jitters \cup {Some(IDEAL_JITTER_MS)} :
                ScoreInit(a, [a EXCEPT !.jitter_ms = j])
    /\ NodeIdInit(DefaultDescriptor, DefaultDescriptor)

InitNodeId ==
    /\ EvalInit("run_once", "xray")
    /\ CycleInit("run_once")
    /\ ProbeInit(1, "")
    /\ HealthInit(TRUE, "missing")
    /\ HistoryInit(DEFAULT_MAX_SIZE)
    /\ StoreInit(FileMissing)
    /\ RankInit(<<>>, [c \in {} |-> None])
    /\ ScoreInit(DefaultMetrics, DefaultMetrics)
    /\ \E a, b \in Descriptors : NodeIdInit(a, b)

InitCycle ==
    /\ EvalInit("run_once", "xray")
    /\ HistoryInit(DEFAULT_MAX_SIZE)
    /\ StoreInit(FileMissing)
    /\ RankInit(<<>>, [c \in {} |-> None])
    /\ ScoreInit(DefaultMetrics, DefaultMetrics)
    /\ NodeIdInit(DefaultDescriptor, DefaultDescriptor)
    /\ \E fn \in {"run_once", "run_scanner", "main"} : CycleInit(fn)
    /\ ProbeInit(1, "")
    /\ HealthInit(TRUE, "missing")

NextCycle ==
    \/ RunOnceStart
    \/ \E i \in Sources : FetchAttempt(i)
    \/ \E i \in Sources : FetchSleepDone(i)
    \/ FetchAllReturn
    \/ RunOnceNodes
    \/ RunOnceTest
    \/ RunOnceFilterAndRank
    \/ RunScanner
    \/ Main
    \/ SignalBeforeHandler

SpecCycle == InitCycle /\ [][NextCycle]_vars

\* A cycle function with the health server answering /readyz beside it.
InitHealth ==
    /\ EvalInit("run_once", "xray")
    /\ HistoryInit(DEFAULT_MAX_SIZE)
    /\ StoreInit(FileMissing)
    /\ RankInit(<<>>, [c \in {} |-> None])
    /\ ScoreInit(DefaultMetrics, DefaultMetrics)
    /\ NodeIdInit(DefaultDescriptor, DefaultDescriptor)
    /\ \E fn \in {"run_once", "run_scanner"} : CycleInit(fn)
    /\ ProbeInit(1, "")
    /\ \E binary \in BOOLEAN, report \in {"missing", "recent", "old", "stat_error"} :
          HealthInit(binary, report)

NextHealth ==
    \/ RunOnceStart
    \/ \E i \in Sources : FetchAttempt(i)
    \/ \E i \in Sources : FetchSleepDone(i)
    \/ FetchAllReturn
    \/ RunOnceNodes
    \/ RunOnceTest
    \/ RunOnceFilterAndRank
    \/ RunScanner
    \/ ReadinessProbe

SpecHealth == InitHealth /\ [][NextHealth]_vars

\* run_once with XrayTester on a pool smaller than the node list.  The event
\* loop runs every task that is ready: a task whose step stays possible takes
\* it.
NextPool ==
    \/ \E t \in Nodes : GetPort(t)
    \/ \E t \in Nodes : XrayManagerEnter(t)
    \/ \E t \in Nodes : ReleasePort(t)
    \/ GatherDone

InitPool == EvalInit("run_once", "xray") /\ HistoryInit(DEFAULT_MAX_SIZE) /\ OtherInit

SpecPool ==
    /\ InitPool /\ [][NextPool]_vars
    /\ \A t \in Nodes : WF_vars(GetPort(t) \/ XrayManagerEnter(t) \/ ReleasePort(t))
    /\ WF_vars(GatherDone)

\* test_all_nodes with HiddifyTester.  Every step of the program is taken
\* when it stays possible; the exit of the engine subprocess is up to the
\* subprocess, which may ignore the termination request.
HiddifyStep(t) ==
    \/ SemAcquire(t)
    \/ HiddifyTesterEnter(t)
    \/ HiddifySleepDone(t)
    \/ GetPort(t)
    \/ HiddifySelect(t)
    \/ HiddifyLatency(t)
    \/ HiddifySpeed(t)
    \/ ReleasePort(t)
    \/ HiddifyExit(t)
    \/ HiddifyWaitDone(t)

NextExit ==
    \/ \E t \in Nodes : SemAcquire(t)
    \/ \E t \in Nodes : HiddifyTesterEnter(t)
    \/ \E t \in Nodes : HiddifySleepDone(t)
    \/ \E t \in Nodes : GetPort(t)
    \/ \E t \in Nodes : HiddifySelect(t)
    \/ \E t \in Nodes : HiddifyLatency(t)
    \/ \E t \in Nodes : HiddifySpeed(t)
    \/ \E t \in Nodes : ReleasePort(t)
    \/ \E t \in Nodes : HiddifyExit(t)
    \/ \E t \in Nodes : HiddifyWaitDone(t)
    \/ \E t \in Nodes : ProcExit(t)
    \/ TestAllNodesReturn

InitExit ==
    EvalInit("test_all_nodes", "hiddify") /\ HistoryInit(DEFAULT_MAX_SIZE) /\ OtherInit

SpecExit ==
    /\ InitExit /\ [][NextExit]_vars
    /\ \A t \in Nodes : WF_vars(HiddifyStep(t))
    /\ WF_vars(TestAllNodesReturn)

InitProbe ==
    /\ EvalInit("run_once", "xray")
    /\ HistoryInit(DEFAULT_MAX_SIZE)
    /\ CycleInit("run_once")
    /\ StoreInit(FileMissing)
    /\ RankInit(<<>>, [c \in {} |-> None])
    /\ ScoreInit(DefaultMetrics, DefaultMetrics)
    /\ NodeIdInit(DefaultDescriptor, DefaultDescriptor)
    /\ \E n \in Nodes, url \in {"", "http://latency.test/"} : ProbeInit(n, url)
    /\ HealthInit(TRUE, "missing")

NextProbe == MeasureLatency \/ MeasureThroughput

SpecProbe == InitProbe /\ [][NextProbe]_vars

NextNodeId == NodePostInit

SpecNodeId == InitNodeId /\ [][NextNodeId]_vars

NextScore == ScoreCalls

SpecScore == InitScore /\ [][NextScore]_vars

NextRank == FilterAndRank

SpecRank == InitRank /\ [][NextRank]_vars

SpecExample == InitExample /\ [][NextRank]_vars

NextStore ==
    \/ \E node_id \in NodeIds, success \in BOOLEAN : Update(node_id, success)
    \/ SaveHistory
    \/ LoadHistory

SpecStore == InitStore /\ [][NextStore]_vars

NextHistory ==
    \/ \E success \in BOOLEAN : AddResult(success)
    \/ \E node_id \in NodeIds, success \in BOOLEAN : Update(node_id, success)

SpecHistory == InitHistory /\ [][NextHistory]_vars

\* A NodeHistory that is written out and restored at some point of its life.
NextRestore ==
    \/ \E success \in BOOLEAN : AddResult(success)
    \/ Restore

SpecRestore == InitHistory /\ [][NextRestore]_vars

NextEval ==
    \/ \E t \in Nodes :
        \/ GetPort(t)
        \/ XrayManagerEnter(t)
        \/ ReleasePort(t)
        \/ SemAcquire(t)
        \/ XrayTesterEnter(t)
        \/ HiddifyTesterEnter(t)
        \/ HiddifySleepDone(t)
        \/ ProcExit(t)
        \/ HiddifySelect(t)
        \/ HiddifyLatency(t)
        \/ HiddifySpeed(t)
        \/ HiddifyExit(t)
        \/ HiddifyWaitDone(t)
    \/ TestAllNodesReturn
    \/ GatherDone

Next == NextEval

Spec == Init /\ [][Next]_vars

\* ==================================================================== claims
Holding(t) == port[t] # NoPort
Ended(t) == pc[t] \in {"returned", "raised"}
\* Positions of test_node after its finally clause has run.
AfterRelease == {"returned", "h_aexit", "h_wait"}
\* Positions inside test_node between get_port and the finally clause.
BeforeRelease == {"aenter", "finally", "h_select", "h_latency", "h_speed", "h_finally"}

\* C1: every port handed out or waiting in the pool lies in [start, end], and
\* no port is held by two evaluations, or held and in the pool, at one time.
C1_PortsInRangeNeverDoubleLeased ==
    /\ \A t \in Nodes : Holding(t) => port[t] \in PortRange
    /\ \A i \in 1 .. Len(ports) : ports[i] \in PortRange
    /\ \A t1, t2 \in Nodes : (t1 # t2 /\ Holding(t1)) => port[t1] # port[t2]
    /\ \A t \in Nodes : \A i \in 1 .. Len(ports) : Holding(t) => ports[i] # port[t]

\* Two evaluations hold ports at once, one of them a port that an earlier
\* evaluation had leased and released.
C1_Witness ==
    \E t1, t2, t3 \in Nodes :
        /\ t1 # t2 /\ Holding(t1) /\ Holding(t2)
        /\ released[t3] = 1 /\ pc[t3] \in AfterRelease

\* C2: test_node releases its port exactly once on every path: no release
\* before its finally clause, one release from then on, and the port it held
\* is back in the pool unless another evaluation has leased it since.
C2_PortReleasedExactlyOnce ==
    \A t \in Nodes :
        /\ pc[t] \in AfterRelease => (released[t] = 1 /\ ~Holding(t))
        /\ pc[t] \in BeforeRelease => (released[t] = 0 /\ Holding(t))
        /\ pc[t] \notin (AfterRelease \cup BeforeRelease) => (released[t] = 0 /\ ~Holding(t))

\* Two evaluations of XrayTester have returned, one after a config error and
\* one after an unexpected exception, each having released its port once.
C2_Witness ==
    \E t1, t2 \in Nodes :
        /\ pc[t1] = "returned" /\ metrics[t1].error = "config_error" /\ released[t1] = 1
        /\ pc[t2] = "returned" /\ metrics[t2].error = "unknown_error" /\ released[t2] = 1

\* C5 (as claimed): when a node's evaluation has ended, no temporary config
\* file of it is left on disk.
C5_TempFileRemovedWhenEvaluationEnds ==
    \A t \in Nodes : Ended(t) => ~tmpfile[t]

\* C6: an error raised inside test_node never leaves it: the task does not end
\* with an exception, it returns a NodeMetrics with success false and one of the
\* four error kinds, and under run_once the gather returns one result per node.
ErrorKinds == {"config_error", "startup_error", "connection_error", "unknown_error"}
C7_OneMeasurementPerNode ==
    opc = "done" => Len(metrics_list) = NumNodes

\* C8 (as claimed): at most MAX_CONCURRENT_TESTS evaluations are in progress
\* (between get_port and release_port) at once, each holding one leased port.
InProgress == {t \in Nodes : pc[t] \in BeforeRelease}
RECURSIVE CountTrue(_)
CountTrue(w) == IF w = <<>> THEN 0
                ELSE (IF Head(w) THEN 1 ELSE 0) + CountTrue(Tail(w))

\* r is the reliability of a node whose window is w: 1.0 for an empty window,
\* else successes / entries; between 0 and 1; 0.0 when every entry is a failure.
IsReliabilityOf(r, w) ==
    /\ r[2] > 0 /\ 0 <= r[1] /\ r[1] <= r[2]
    /\ w = <<>> => r[1] = r[2]
    /\ w # <<>> => r[1] * Len(w) = CountTrue(w) * r[2]
    /\ (w # <<>> /\ CountTrue(w) = 0) => r[1] = 0

WindowOf(d, node_id) ==
    IF node_id \in DOMAIN d THEN d[node_id].test_results ELSE <<>>

\* C9: after any sequence of recorded outcomes the reliability of a node is
\* successes-in-window / entries-in-window, 1.0 without history, 0.0 after k
\* failures out of k, and always within [0, 1].
C9_ReliabilityIsSuccessRatio ==
    /\ IsReliabilityOf(Reliability(h), h.test_results)
    /\ \A id \in NodeIds :
          IsReliabilityOf(GetReliability(node_history, id), WindowOf(node_history, id))

\* The stand-alone history has evicted entries and holds both successes and
\* failures; node n1 has two failures out of two and n2 was never recorded.
C9_Witness ==
    /\ Len(log) > h.max_size /\ h.max_size >= 2
    /\ Reliability(h)[1] > 0 /\ Reliability(h)[1] < Reliability(h)[2]
    /\ "n1" \in DOMAIN node_history
    /\ node_history["n1"].test_results = <<FALSE, FALSE>>
    /\ GetReliability(node_history, "n1") = <<0, 2>>
    /\ "n2" \notin DOMAIN node_history
    /\ GetReliability(node_history, "n2") = <<1, 1>>

\* The last k entries of a sequence.
LastK(q, k) == SubSeq(q, Len(q) - k + 1, Len(q))
Min(a, b) == IF a < b THEN a ELSE b
Trues(n) == [i \in 1 .. n |-> TRUE]
\* Failures counted by the running counters.
FailCount(nh) == nh.total_tests - nh.success_count

\* C10: a window of capacity c holds the most recent min(c, calls) outcomes,
\* oldest first, and the running counters equal what the window holds, so a
\* failure that ages out is no longer counted: one failure followed by c
\* successes leaves a failure count of 0.
C10_WindowAndCountersConsistent ==
    /\ Len(h.test_results) <= h.max_size
    /\ h.test_results = LastK(log, Min(h.max_size, Len(log)))
    /\ h.success_count = CountTrue(h.test_results)
    /\ h.total_tests = Len(h.test_results)
    /\ log = <<FALSE>> \o Trues(h.max_size) => FailCount(h) = 0
    /\ \A id \in DOMAIN node_history :
          /\ Len(node_history[id].test_results) <= DEFAULT_MAX_SIZE
          /\ node_history[id].success_count = CountTrue(node_history[id].test_results)
          /\ node_history[id].total_tests = Len(node_history[id].test_results)

\* One failure followed by c successes has been recorded in a window of
\* capacity c >= 2: the failure has aged out.
C10_Witness ==
    /\ h.max_size >= 2
    /\ log = <<FALSE>> \o Trues(h.max_size)
    /\ h.test_results = Trues(h.max_size)
    /\ FailCount(h) = 0

\* C11 (as claimed): load_history never raises, and when the file is missing,
\* is no JSON, or is JSON of another structure than a dict of per-node
\* records, it returns with an empty in-memory history.
WrongStructure(f) ==
    /\ f.kind = "json"
    /\ \/ f.doc.type # "object"
       \/ \E k \in DOMAIN f.doc.members : f.doc.members[k].type # "object"
C11_LoadHistoryNeverRaises ==
    /\ load_outcome # "raised"
    /\ (load_outcome # "none" /\ (history_file.kind # "json" \/ WrongStructure(history_file)))
          => fresh = EmptyDict

\* C12: a history that was saved and then loaded into a fresh manager holds,
\* for every node id, the same window, the same reliability and the same
\* failure count as the saved one.
C12_SaveLoadRoundTrip ==
    (load_outcome = "loaded" /\ history_file = JsonDump(saved)) =>
        /\ DOMAIN fresh = DOMAIN saved
        /\ \A id \in DOMAIN saved :
              /\ fresh[id].test_results = saved[id].test_results
              /\ Reliability(fresh[id]) = Reliability(saved[id])
              /\ FailCount(fresh[id]) = FailCount(saved[id])

\* A manager holding a success and a failure for n1 and a failure for n2 was
\* saved, and the fresh manager has loaded that file.
C12_Witness ==
    /\ load_outcome = "loaded" /\ history_file = JsonDump(saved)
    /\ DOMAIN saved = {"n1", "n2"}
    /\ saved["n1"].test_results = <<TRUE, FALSE>>
    /\ Reliability(fresh["n1"]) = <<1, 2>> /\ FailCount(fresh["n1"]) = 1
    /\ Reliability(fresh["n2"]) = <<0, 1>>

\* The measurement filter_and_rank looks up for position i of raw_configs.
MetricsAt(i) == MapGet(metrics_map, raw_configs[i])
\* The positions of raw_configs the returned list was built from.
RankedSources == {scored_nodes[k].src : k \in 1 .. Len(scored_nodes)}
\* A measurement that failed or lacks latency or throughput.
Lacking(om) ==
    om = None \/ ~om[1].success \/ om[1].latency_ms = None \/ om[1].throughput_kbps = None

\* C13: a measurement with success false, or without latency, or without
\* throughput, scores 0, and its node is not in the ranked output.
C13_FailedOrLackingScoresZero ==
    rank_pc = "returned" =>
        \A i \in 1 .. Len(raw_configs) :
            Lacking(MetricsAt(i)) =>
                (Score(MetricsAt(i)) = <<0, 1>> /\ i \notin RankedSources)

\* The list held a failed node and a successful node without throughput next
\* to a node that was ranked.
C13_Witness ==
    /\ rank_pc = "returned" /\ Len(ranked) = 1
    /\ \E i, j \in 1 .. Len(raw_configs) :
          /\ MetricsAt(i) # None /\ ~MetricsAt(i)[1].success
          /\ MetricsAt(j) # None /\ MetricsAt(j)[1].success
          /\ MetricsAt(j)[1].throughput_kbps = None
          /\ raw_configs[i].scheme = "vmess" /\ raw_configs[j].scheme = "TROJAN"

\* C14 (as claimed): with everything else equal, the score of a successful
\* measurement does not fall when throughput rises and does not rise when
\* latency rises, latency 0 included.
C14_ScoreMonotone ==
    score_results # <<>> =>
        LET a == score_args[1]
            b == score_args[2]
        IN  /\ (a.latency_ms = b.latency_ms /\ a.jitter_ms = b.jitter_ms
                 /\ a.throughput_kbps[1] <= b.throughput_kbps[1])
                 => RLe(score_results[1], score_results[2])
            /\ (a.throughput_kbps = b.throughput_kbps /\ a.jitter_ms = b.jitter_ms
                 /\ a.latency_ms[1] <= b.latency_ms[1])
                 => RLe(score_results[2], score_results[1])

\* The reliability of a measurement; an absent one counts as 1.0, as in score.
ReliabilityOf(m) == IF m.reliability = None THEN <<1, 1>> ELSE m.reliability[1]

\* C15 (as claimed): every node of the ranked output has a supported scheme, a
\* successful measurement, latency <= MAX_LATENCY_MS, throughput >=
\* MIN_THROUGHPUT_KBPS and reliability >= MIN_RELIABILITY.
C15_OutputNodesAreEligible ==
    rank_pc = "returned" =>
        \A i \in RankedSources :
            /\ Lower(raw_configs[i].scheme) \in SUPPORTED_PROTOCOLS
            /\ MetricsAt(i) # None
            /\ MetricsAt(i)[1].success
            /\ MetricsAt(i)[1].latency_ms[1] <= MAX_LATENCY_MS
            /\ MetricsAt(i)[1].throughput_kbps[1] >= MIN_THROUGHPUT_KBPS
            /\ RLe(MIN_RELIABILITY, ReliabilityOf(MetricsAt(i)[1]))

\* C16: the returned list is in descending order of score, and nodes of equal
\* score are in the order they had in the input list.
C16_DescendingAndStable ==
    rank_pc = "returned" =>
        /\ Len(ranked) = Len(scored_nodes)
        /\ \A k \in 1 .. Len(scored_nodes) :
              ranked[k] = scored_nodes[k].final_config
        /\ \A k \in 1 .. Len(scored_nodes) - 1 :
              /\ RLe(scored_nodes[k + 1].score, scored_nodes[k].score)
              /\ scored_nodes[k + 1].score = scored_nodes[k].score
                    => scored_nodes[k].src < scored_nodes[k + 1].src

\* Three nodes were ranked: the second of the input first, then the first and
\* the third, which have the same score.
C16_Witness ==
    /\ rank_pc = "returned" /\ Len(scored_nodes) = 3
    /\ RLt(scored_nodes[2].score, scored_nodes[1].score)
    /\ scored_nodes[2].score = scored_nodes[3].score
    /\ scored_nodes[1].src = 2 /\ scored_nodes[2].src = 1 /\ scored_nodes[3].src = 3

\* The path is significant for the stream transports ws and grpc.
PathSignificant(d) == d.scheme \in {"ws", "grpc"}
SameEndpoint(a, b) ==
    /\ a.host = b.host /\ a.port = b.port
    /\ (PathSignificant(a) \/ PathSignificant(b)) => (a.scheme = b.scheme /\ a.path = b.path)

\* C18 (as claimed): two descriptors with the same host and port (and path,
\* where it is significant) get the same node_id whatever their remarks, and
\* descriptors that differ in host or port get different node_ids.
C18_NodeIdFromHostPortPath ==
    node_ids # <<>> =>
        LET a == descriptors[1]
            b == descriptors[2]
        IN  /\ SameEndpoint(a, b) => node_ids[1] = node_ids[2]
            /\ (a.host # b.host \/ a.port # b.port) => node_ids[1] # node_ids[2]

\* The cycle has fetched and found nothing usable: no line at all, or every
\* node evaluated and none passing.
FullyFailed ==
    /\ fetch_pc = "returned"
    /\ \/ fetched = <<>>
       \/ /\ all_metrics # <<>>
          /\ \A i \in 1 .. Len(all_metrics) : ~all_metrics[i].success

\* C19 (as claimed): a fully failed cycle, with zero nodes fetched or with
\* nodes fetched and none passing evaluation, does not end by raising.
C19_FullyFailedCycleDoesNotRaise ==
    FullyFailed => cyc_pc # "raised"

\* The lines source i contributes: those of its body when it was fetched.
FetchedLinesOf(i) ==
    IF fetch_task[i].st = "returned" THEN SourceLines(fetch_task[i].body) ELSE <<>>

\* First place (source, then line) at which a line occurs among the sources.
Places(line) ==
    {<<i, j>> \in Sources \X (1 .. 4) :
        j <= Len(FetchedLinesOf(i)) /\ FetchedLinesOf(i)[j] = line}
Before(p, q) == p[1] < q[1] \/ (p[1] = q[1] /\ p[2] < q[2])
FirstPlace(line) == CHOOSE p \in Places(line) : \A q \in Places(line) : p = q \/ Before(p, q)

\* C20: what fetch_all returns holds exactly the stripped, non-empty lines of
\* the sources that were fetched, each once, in the order of their first
\* occurrence; a source that failed adds nothing, and the list is empty when
\* every source failed.
C20_FetchAllUniqueLinesInOrder ==
    fetch_pc = "returned" =>
        /\ \A a, b \in 1 .. Len(fetched) : fetched[a] = fetched[b] => a = b
        /\ \A a \in 1 .. Len(fetched) : fetched[a] # "" /\ Strip(fetched[a]) = fetched[a]
        /\ {fetched[a] : a \in 1 .. Len(fetched)} =
              UNION {{FetchedLinesOf(i)[j] : j \in 1 .. Len(FetchedLinesOf(i))} :
                        i \in Sources}
        /\ \A a, b \in 1 .. Len(fetched) :
              a < b => Before(FirstPlace(fetched[a]), FirstPlace(fetched[b]))
        /\ (\A i \in Sources : fetch_task[i].st = "raised") => fetched = <<>>

\* fetch_all has returned: the first source failed on its last attempt, the
\* second gave a body with a padded, a blank and a repeated line.
C20_Witness ==
    /\ fetch_pc = "returned"
    /\ fetch_task[1].st = "raised" /\ fetch_task[1].attempt = MAX_RETRIES
    /\ fetch_task[1].exc \in RetriedErrors
    /\ fetch_task[2].st = "returned"
    /\ Len(fetch_task[2].body.text) = 4
    /\ fetched = <<"trojan://u1@h1:443", "vmess://b64(h2:443)">>

\* C21: while the pool is empty no get_port returns, and a get_port that waits
\* on the empty pool returns a port in the end, the scheduling being fair.
C21_GetPortWaitsForRelease ==
    /\ [][ports = <<>> => \A t \in Nodes : pc[t] = "get_port" => pc'[t] = "get_port"]_vars
    /\ \A t \in Nodes : (pc[t] = "get_port" /\ ports = <<>>) ~> Holding(t)

\* The pool is empty again after a release: a get_port has returned the port
\* another evaluation gave back.
C21_Witness ==
    /\ ports = <<>>
    /\ \E t, u \in Nodes : pc[t] = "aenter" /\ Holding(t) /\ released[u] = 1

\* C22 (as claimed): the exit step of the tester always completes: a
\* subprocess that is still running is terminated, waited for during a
\* bounded grace period and killed, so the evaluation gets past __aexit__
\* also when the subprocess ignores the termination request.
C22_ExitStepAlwaysCompletes ==
    \A t \in Nodes : (pc[t] = "h_aexit") ~> (pc[t] = "returned")

\* The URI adapter fails on the node of task t: parse_v2ray_uri returned None
\* (XrayConfigError is raised) or parse_vmess_uri raised ValueError.
Untranslatable(t) == caught[t] \in {"XrayConfigError", "ValueError"}

\* C23 (as claimed): when the node's URI cannot be translated, no subprocess
\* is started and the measurement is a failed one of kind config_error.
C23_UntranslatableUriIsConfigError ==
    \A t \in Nodes :
        Untranslatable(t) =>
            /\ proc[t] = "none"
            /\ ~metrics[t].success
            /\ metrics[t].error = "config_error"

\* C24: when the latency probe fails, the measurement has success false and
\* the throughput probe is not started.
C24_LatencyFailureSkipsThroughput ==
    (probe_error # <<>> /\ probe_error[1] = "latency") =>
        /\ probe_pc = "ended"
        /\ ~probe_result[1].success
        /\ "throughput" \notin probe_started

\* The latency probe has timed out and test_node has returned.
C24_Witness ==
    /\ probe_error = <<"latency", "TimeoutError">>
    /\ probe_result # None
    /\ probe_started = {"latency"}

\* C25 (as claimed): when the latency probe succeeds and the transfer fails,
\* the measurement does not carry the value zero as its throughput.
C25_FailedTransferIsNotZeroThroughput ==
    (probe_error # <<>> /\ probe_error[1] = "throughput") =>
        probe_result[1].throughput_kbps # 0

C27_ScoreWithinRange ==
    \A i \in 1 .. Len(score_results) :
        /\ RLe(<<0, 1>>, score_results[i])
        /\ RLe(score_results[i], <<100, 1>>)

\* A measurement better than ideal in every respect has been scored 100, and
\* one with reliability 0 has a score strictly between 0 and 100.
C27_Witness ==
    /\ score_results # <<>>
    /\ score_args[1].throughput_kbps = Some(20000)
    /\ score_args[1].latency_ms = Some(25)
    /\ score_results[1] = <<100, 1>>
    /\ score_args[2].throughput_kbps = Some(5000)
    /\ RLt(score_results[2], <<100, 1>>)

\* C28 (as claimed): a successful measurement with latency and throughput and
\* without jitter gets the score of the same measurement with ideal jitter.
C28_AbsentJitterScoredAsIdeal ==
    score_results # <<>> =>
        LET a == score_args[1]
            b == score_args[2]
        IN  (a.jitter_ms = None /\ b = [a EXCEPT !.jitter_ms = Some(IDEAL_JITTER_MS)])
                => score_results[1] = score_results[2]

\* C29 (as claimed): the latency sub-score of a scored measurement is 1.0 at
\* or below the ideal latency and 0.0 at or above MAX_LATENCY_MS.
C29_LatencySubScoreEnds ==
    score_results # <<>> =>
        \A i \in 1 .. 2 :
            LET l == score_args[i].latency_ms[1]
            IN  /\ l <= IDEAL_LATENCY_MS => GetLatencyScore(l) = <<1, 1>>
                /\ l >= MAX_LATENCY_MS => GetLatencyScore(l) = <<0, 1>>

\* C30 (as claimed): of two nodes of supported scheme measured at (100 ms,
\* 8000 kbps) and (1800 ms, 150 kbps), both with reliability 0.95 and without
\* jitter or packet loss, both are in the ranked output and the first has the
\* strictly higher score.
C30_ExampleNodesRanked ==
    rank_pc = "returned" =>
        \A i, j \in 1 .. Len(raw_configs) :
            (/\ Lower(raw_configs[i].scheme) \in SUPPORTED_PROTOCOLS
             /\ Lower(raw_configs[j].scheme) \in SUPPORTED_PROTOCOLS
             /\ MetricsAt(i) = Some(ExampleFirst)
             /\ MetricsAt(j) = Some(ExampleSecond))
            => \E a, b \in 1 .. Len(scored_nodes) :
                  /\ scored_nodes[a].src = i /\ scored_nodes[b].src = j
                  /\ RLt(scored_nodes[b].score, scored_nodes[a].score)

\* C31 (as claimed): once a shutdown signal was received, main() does not end
\* by an exception or by being killed: it leaves its loop, saves the history
\* at line 131 and returns.
C31_GracefulShutdown ==
    (cycle_fn = "main" /\ signal_received) => cyc_pc \notin {"raised", "killed"}

\* The attempts task i has made: the passes of the loop it has entered.
AttemptsMade(i) == fetch_task[i].attempt + 1

\* C32: _fetch_one_with_retry makes at most MAX_RETRIES + 1 attempts; a task
\* that returned or raised makes no further attempt; the waits it has made
\* are RETRY_DELAY, then BACKOFF_FACTOR times the one before, one after every
\* failed attempt but the last; an unexpected exception ends the task at
\* once; a task that ran out of attempts raises the error it kept last.
C32_RetryWithBackoff ==
    /\ [](\A i \in Sources :
            LET t == fetch_task[i]
            IN  /\ AttemptsMade(i) <= MAX_RETRIES + 1
                /\ Len(t.slept) = t.attempt
                /\ \A k \in 1 .. Len(t.slept) :
                      t.slept[k] = IF k = 1 THEN RETRY_DELAY
                                   ELSE t.slept[k - 1] * BACKOFF_FACTOR
                /\ t.st = "sleeping" => (t.exc \in RetriedErrors /\ t.attempt < MAX_RETRIES)
                /\ t.exc = "Exception" => t.st = "raised"
                /\ t.st = "raised" =>
                      (t.exc # "none" /\ (t.exc \in RetriedErrors => t.attempt = MAX_RETRIES))
                /\ t.st = "returned" => t.body \in Bodies)
    /\ [][\A i \in Sources :
            fetch_task[i].st \in {"returned", "raised"} => fetch_task'[i] = fetch_task[i]]_vars

\* One task raised after MAX_RETRIES + 1 attempts and two waits; the other
\* returned on its second attempt, after one wait.
C32_Witness ==
    \E i, j \in Sources :
        /\ fetch_task[i].st = "raised" /\ fetch_task[i].exc = "TimeoutError"
        /\ AttemptsMade(i) = MAX_RETRIES + 1
        /\ fetch_task[i].slept = <<RETRY_DELAY, RETRY_DELAY * BACKOFF_FACTOR>>
        /\ fetch_task[j].st = "returned" /\ AttemptsMade(j) = 2
        /\ fetch_task[j].slept = <<RETRY_DELAY>>

\* C33 (as claimed): a readiness probe answered while a scan cycle is running
\* and the engine binary exists reports ready.
C33_ReadyWhileCycleRuns ==
    (readyz # <<>> /\ readyz.running /\ xray_binary_is_file) => readyz.status = "ready"

\* The ports that evaluations hold, and the ports waiting in the pool.
Leased == {port[t] : t \in {u \in Nodes : Holding(u)}}
Pooled == {ports[i] : i \in 1 .. Len(ports)}

\* C34: the pool and the leased ports partition [start, end]: together they
\* are the whole range, no port is in both, none is twice in the pool or held
\* by two evaluations, and with no evaluation between get_port and its
\* release the pool holds every port of the range exactly once.
C34_PoolAndLeasesPartitionRange ==
    /\ Pooled \cup Leased = PortRange
    /\ Pooled \cap Leased = {}
    /\ Cardinality(Pooled) = Len(ports)
    /\ Cardinality(Leased) = Cardinality({t \in Nodes : Holding(t)})
    /\ InProgress = {} => (Pooled = PortRange /\ Len(ports) = Cardinality(PortRange))

\* Every evaluation has ended and the ports are back in the pool in another
\* order than they started in.
C34_Witness ==
    /\ \A t \in Nodes : Ended(t)
    /\ \E t \in Nodes : released[t] = 1
    /\ ports # PortManagerInit(XRAY_SOCKS_PORT_START, XRAY_SOCKS_PORT_END)
    /\ Pooled = PortRange

\* C35 (as claimed): when run_once or run_scanner has returned or raised,
\* the flag main_loop_active it set at its start is false again.
C35_FlagClearedWhenCycleEnds ==
    (cycle_fn \in {"run_once", "run_scanner"} /\ cyc_pc \in {"returned", "raised"})
        => ~main_loop_active

\* C36 (as claimed): after any calls of add_test_result on both, the object
\* restored by from_dict(to_dict(h)) has the window, the counters and the
\* reliability of h, whatever capacity h was created with.
C36_RestoredBehavesAlike ==
    restored # <<>> =>
        /\ restored[1].test_results = h.test_results
        /\ restored[1].success_count = h.success_count
        /\ restored[1].total_tests = h.total_tests
        /\ Reliability(restored[1]) = Reliability(h)

\* The positions of the returned list that were built from input position i.
PlacesOf(i) == {k \in 1 .. Len(scored_nodes) : scored_nodes[k].src = i}

\* C37 (as claimed): every input node that passes the eligibility checks
\* (supported scheme, success, latency, throughput, reliability) is in the
\* output of filter_and_rank exactly once, its text before the first '#'
\* unchanged and its remark the generated one.
C37_EligibleNodesAllRanked ==
    rank_pc = "returned" =>
        \A i \in 1 .. Len(raw_configs) :
            (/\ IsNodeEligible(raw_configs[i], MetricsAt(i))
             /\ RLe(MIN_RELIABILITY, ReliabilityOf(MetricsAt(i)[1])))
            => /\ Cardinality(PlacesOf(i)) = 1
               /\ \A k \in PlacesOf(i) :
                     /\ ranked[k].base = BaseConfig(raw_configs[i])
                     /\ ranked[k].remark = CreateRemark(MetricsAt(i)[1], Score(MetricsAt(i)))

\* C38 (as claimed): with every step of the program taken when it stays
\* possible, every node's evaluation eventually ends and the orchestrator
\* returns.
C38_EveryEvaluationFinishes ==
    /\ \A t \in Nodes : <>Ended(t)
    /\ <>(opc = "done")

\* The outcomes of the cycle's tests of node_id, in the order of all_metrics.
OutcomesOf(node_id) ==
    LET ms == SelectSeq(all_metrics, LAMBDA m : m.node = node_id)
    IN  [k \in 1 .. Len(ms) |-> ms[k].success]

\* run_once has passed its for loop over all_metrics (lines 54-55).
HistoryUpdated == cycle_fn = "run_once" /\ cyc_pc = "raised"

\* C39: the history is written in one step, taken when gather has returned
\* the metrics of every node of the cycle; before that step it holds nothing
\* of the cycle, and after it it holds, for every node_id, exactly the
\* outcomes of the tests made of that node, one per test and in their order.
C39_HistoryWrittenAfterAllTests ==
    /\ [](~HistoryUpdated => node_history = EmptyDict)
    /\ [](cyc_pc \in {"tested", "raised"} /\ cycle_fn = "run_once" =>
            /\ Len(all_metrics) = Len(cycle_nodes)
            /\ \A i \in 1 .. Len(cycle_nodes) : all_metrics[i].node = cycle_nodes[i].node_id)
    /\ [](HistoryUpdated =>
            /\ DOMAIN node_history = {all_metrics[i].node : i \in 1 .. Len(all_metrics)}
            /\ \A id \in DOMAIN node_history :
                  node_history[id].test_results = OutcomesOf(id))
    /\ [][node_history' # node_history => (cyc_pc = "tested" /\ cyc_pc' = "raised")]_vars

\* Three nodes were tested, two of them config lines of one server (one
\* node_id): the history holds two outcomes for it and one for the other.
C39_Witness ==
    /\ HistoryUpdated /\ Len(all_metrics) = 3
    /\ \E a, b \in DOMAIN node_history :
          /\ Len(node_history[a].test_results) = 2
          /\ Len(node_history[b].test_results) = 1

====
